---- MODULE Spec2Model ----
(***************************************************************************)
(* Control plane of moviebot: the lock-guarded documents (playlist.json,   *)
(* control.json, now_playing.txt), the queue store (core/queue.py), the    *)
(* playback engine (core/player.py), the control loop (core/controller.py) *)
(* and the thread supervisor (core/main.py).                               *)
(*                                                                         *)
(* The specifications share the variables:                                 *)
(*   SpecQueue  concurrent callers of the queue store, step by step        *)
(*   SpecStore  readers of the queue store next to the playback engine     *)
(*   SpecLock   readers of the queue store alone; SpecLockFair adds weak   *)
(*              fairness of each caller                                    *)
(*   SpecSeq    queue store calls run one at a time                        *)
(*   SpecCtl    control loop and command front-ends                        *)
(*   SpecPlay   playback engine, control loop and command front-ends       *)
(*   SpecEngine playback engine alone                                      *)
(*   SpecSup    supervisor: start_thread, monitor, manual restart          *)
(*   SpecShut   shutdown() next to the playback engine                     *)
(*   SpecFault  SpecStore with the timeout of the engine's lock            *)
(*   SpecCheck  control loop on a control.json found as it is              *)
(*   SpecPanel  control loop and the Discord control panel                 *)
(*   SpecUpd    SpecSeq with update_entry                                  *)
(*   SpecIdle   callers of add_to_queue next to an idle engine; SpecIdleFair *)
(*              adds weak fairness of the Player thread and the callers      *)
(*   SpecHold   Player and Controller thread with every lock scope in steps  *)
(*   SpecFeed   callers that change the store next to a streaming engine     *)
(*   SpecRaise  control loop whose handlers may raise                        *)
(***************************************************************************)
EXTENDS Integers, Sequences, FiniteSets, TLC

\* ------------------------------------------------------------------ bounds
NumWorkers == 2        \* concurrent callers of the queue store
MaxInit == 2           \* entries in playlist.json before the callers start
LockRetries == 1       \* failed flock attempts after which the timeout has elapsed
MaxSeqOps == 4         \* appends in a sequential run
MaxCmds == 3           \* commands the front-ends issue in a run of SpecCtl
MaxPlayCmds == 1       \* commands the front-ends issue in a run of SpecPlay
NumThreads == 2        \* names in the supervisor's table
MaxManual == 1         \* calls of manual_restart in a run

Workers == 1..NumWorkers
NoOne == 0
\* the documents next to playlist.json that are guarded by a lock of their own
LockedDocs == {"control", "now_playing"}
NoLocks == [d \in LockedDocs |-> NoOne]

VARIABLES
    \* playlist.json
    playlist,          \* the parsed list the document holds
    playlistOK,        \* FALSE: the file does not parse (json.load raises)
    lockHolder,        \* flock owner of playlist.json, NoOne when free
    nextId,            \* stands for uuid4: the next unused entry id
    \* callers of core/queue.py
    pc, op, arg, queue, tries, result, stale, sawTorn,
    timedOut,          \* caller -> "read"/"write": its locked_file raised TimeoutError
    store0,            \* playlist.json as the callers found it
    \* sequential runs
    appended, popped, reordered,
    \* MoviePlayer (core/player.py)
    epc,               \* position of the Player thread in play_loop / play_video
    running,           \* self.running
    cur,               \* next_video
    updated,           \* updated_playlist
    retries,           \* retries
    elapsed,           \* time.time() - start_time, in seconds
    process,           \* the emitter: "none", "alive", "exited", "terminated"
    nowPlaying,        \* now_playing.txt
    control,           \* control.json: kind -> request id, 0 when absent
    controlOK,         \* FALSE: control.json does not parse
    launches,          \* entry id -> number of launch_ffmpeg calls
    ended,             \* entry id -> why the engine left the entry
    crashed,           \* the emitter has exited by itself
    why,               \* how play_video left its streaming loop
    \* ControlManager (core/controller.py) and the command front-ends
    cpc,               \* position of the Controller thread
    last_request_ids,  \* self.last_request_ids
    paused,            \* self.paused
    command_data,      \* the document _check_for_new_command read
    todo,              \* kinds of command_data not yet visited by the for loop
    applied,           \* <<kind, id>> -> number of handler applications
    nextReq,           \* stands for uuid4: the next unused request id
    fpc,               \* front-end -> position in its command handler
    fkind,             \* front-end -> kind being issued
    fdata,             \* discordbot: the document on_interaction read
    fid,               \* front-end -> request id of the command being issued
    ccmd,              \* the command _apply_command was called with
    issued,            \* log of commands written: kind, id, entry streaming
    budget,            \* commands the front-ends may still issue
    \* supervisor (core/main.py)
    threads,           \* name -> threads[name].is_alive()
    restart_counters,  \* restart_counters
    mpc,               \* position of monitor()
    mi,                \* monitor: index of the name the for loop is at
    replaced,          \* name -> threads[name] was replaced since monitor's list(threads.items())
    flagged,           \* names for which monitor logged "Max restart attempts reached"
    monStarts,         \* name -> threads created by monitor
    afterFlag,         \* names monitor restarted while another name was flagged
    orphans,           \* name -> live threads that are no longer in the table
    apc,               \* position of manual_restart
    aname,             \* manual_restart: name
    manual,            \* name -> manual_restart was called with the name
    abudget,           \* calls of manual_restart still to come
    spc,               \* position of shutdown()
    main_running,      \* main.running, the global stop flag
    hooks,             \* stop hook -> "no", or how its call ended: "ok", "raised"
    \* control.json and now_playing.txt
    docLocks           \* document -> owner of its lock, NoOne when free

qvars == <<playlist, playlistOK, lockHolder, nextId, pc, op, arg, queue,
           tries, result, stale, sawTorn, timedOut, store0>>
svars == <<appended, popped, reordered>>
docvars == <<playlist, playlistOK>>
wvars == <<lockHolder, nextId, pc, op, arg, queue, tries, result, stale,
           sawTorn, timedOut, store0>>
pvars == <<epc, running, cur, updated, retries, elapsed, process, nowPlaying,
           control, controlOK, launches, ended, crashed, why>>
cvars == <<cpc, last_request_ids, paused, command_data, todo, applied, nextReq,
           fpc, fkind, fdata, fid, ccmd, issued, budget>>
hvars == <<spc, main_running, hooks>>
lvars == <<docLocks>>
uvars == <<threads, restart_counters, mpc, mi, replaced, flagged, monStarts,
           afterFlag, orphans, apc, aname, manual, abudget, hvars>>
vars == <<qvars, svars, lvars, pvars, cvars, uvars>>
eprivate == <<epc, running, cur, updated, retries, elapsed, ended, crashed, why>>
fvars == <<nextReq, fpc, fkind, fdata, fid, issued, budget>>
notQueue == <<svars, lvars, pvars, cvars, uvars>>
notPlayer == <<wvars, svars, lvars, cvars, uvars>>

\* ------------------------------------------------------- queue.py, pure part
Ops == {"append", "remove", "pin", "pop", "update", "list"}
Mutators == Ops \ {"list"}
Durations == {0, 2}
Patches == {[k |-> "duration", v |-> 2], [k |-> "id", v |-> 1]}

\* _generate_entry: the key is "filepath", so "file_path" is absent
GenerateEntry(id, d) == [id |-> id, file_path |-> "none", duration |-> d]

Ids(q) == {q[i].id : i \in 1..Len(q)}

IndexOf(q, id) ==
    IF \E i \in 1..Len(q) : q[i].id = id
    THEN CHOOSE i \in 1..Len(q) : q[i].id = id /\ \A j \in 1..(i-1) : q[j].id # id
    ELSE 0

RemoveAt(q, i) == SubSeq(q, 1, i-1) \o SubSeq(q, i+1, Len(q))

RECURSIVE FilterOut(_, _)
FilterOut(q, id) ==
    IF q = <<>> THEN <<>>
    ELSE IF Head(q).id = id THEN FilterOut(Tail(q), id)
         ELSE <<Head(q)>> \o FilterOut(Tail(q), id)

\* each operator gives [q: the list to save, save: whether save_playlist is
\* called, ret: the returned value] for the list load_playlist returned
AddToQueueAlt(q, e) == [q |-> <<e>> \o q, save |-> TRUE, ret |-> e.id]
AddToQueue(q, e) == [q |-> Append(q, e), save |-> TRUE, ret |-> e.id]

PinNextAlt(q, id) ==
    LET i == IndexOf(q, id) IN
    IF i = 0 THEN [q |-> q, save |-> FALSE, ret |-> 0]
    ELSE [q |-> [q EXCEPT ![1] = q[i], ![i] = q[1]], save |-> TRUE, ret |-> 1]
PinNext(q, id) ==
    LET i == IndexOf(q, id) IN
    IF i = 0 THEN [q |-> q, save |-> FALSE, ret |-> 0]
    ELSE [q |-> <<q[i]>> \o RemoveAt(q, i), save |-> TRUE, ret |-> 1]

RemoveByIdAlt(q, id) ==
    LET nq == FilterOut(q, id) IN
    IF Len(nq) <= Len(q) THEN [q |-> nq, save |-> TRUE, ret |-> 1]
    ELSE [q |-> q, save |-> FALSE, ret |-> 0]
RemoveById(q, id) ==
    LET nq == FilterOut(q, id) IN
    IF Len(nq) < Len(q) THEN [q |-> nq, save |-> TRUE, ret |-> 1]
    ELSE [q |-> q, save |-> FALSE, ret |-> 0]

RemoveCurrent(q) ==
    IF q = <<>> THEN [q |-> q, save |-> FALSE, ret |-> 0]
    ELSE [q |-> Tail(q), save |-> TRUE, ret |-> Head(q).id]

UpdateEntry(q, id, patch) ==
    LET i == IndexOf(q, id) IN
    IF i = 0 THEN [q |-> q, save |-> FALSE, ret |-> 0]
    ELSE [q |-> [q EXCEPT ![i] =
                   IF patch.k = "id" THEN [@ EXCEPT !.id = patch.v]
                   ELSE [@ EXCEPT !.duration = patch.v]],
          save |-> TRUE, ret |-> 1]

LoadPlaylistAlt(ok, doc) == IF ok THEN doc ELSE <<[id |-> 0, file_path |-> "none", duration |-> 0]>>
\* load_playlist: the parsed document, or [] when reading it raised
LoadPlaylist(ok, doc) == IF ok THEN doc ELSE <<>>

\* get_now_playing, the loop "if entry['filepath'] == now_data.get('filepath')":
\* an entry with the key "file_path" has no key "filepath" and raises
\* KeyError, which the except branch turns into None
RECURSIVE JoinNowPlaying(_, _)
JoinNowPlaying(id, q) ==
    IF q = <<>> THEN "degraded"
    ELSE IF Head(q).file_path # "none" THEN "none"
    ELSE IF Head(q).id = id THEN "full"
    ELSE JoinNowPlaying(id, Tail(q))

\* get_now_playing: json.load of now_playing.txt, then the join against
\* load_playlist(); "none" is the returned None
GetNowPlaying(np, ok, doc) ==
    IF np.shape # "json" THEN "none"
    ELSE JoinNowPlaying(np.id, LoadPlaylist(ok, doc))

GetNextItemAlt(ok, doc) == [id |-> 0, file_path |-> "none", duration |-> 0]
\* get_next_item: queue[0] if queue else None, on what load_playlist returns;
\* the entry with id 0 stands for None
GetNextItem(ok, doc) ==
    IF LoadPlaylist(ok, doc) # <<>>
    THEN Head(LoadPlaylist(ok, doc))
    ELSE [id |-> 0, file_path |-> "none", duration |-> 0]

\* MoviePlayer.get_next_video on a parsed document: (entry, rest)
GetNextVideo(q) ==
    IF q = <<>> THEN [video |-> 0, rest |-> q]
    ELSE [video |-> Head(q).id, rest |-> Tail(q)]

\* ------------------------------------------------------ player.py, constants
RetryLimit == 3
FallbackCeiling == 3600
MaxTick == 2           \* seconds counted one by one; then time runs to the deadline

EntryIds == 1..MaxInit
Kinds == {"pause", "resume", "skip", "stop", "reload"}
NoEntry == [id |-> 0, file_path |-> "none", duration |-> 0]
\* keys a control.json may hold: the kinds, and one key that is no command
DocKinds == Kinds \cup {"volume"}
\* the value of a key whose payload has no "id"
NoId == -1
NoCommands == [k \in DocKinds |-> 0]
NothingPlaying == [shape |-> "empty", id |-> 0]

\* the Player thread has not been started
PlayerOff ==
    /\ epc = "off"
    /\ running = FALSE
    /\ cur = NoEntry
    /\ updated = <<>>
    /\ retries = 0
    /\ elapsed = 0
    /\ process = "none"
    /\ nowPlaying = NothingPlaying
    /\ control = NoCommands
    /\ controlOK = TRUE
    /\ launches = [i \in EntryIds |-> 0]
    /\ ended = [i \in EntryIds |-> "no"]
    /\ crashed = FALSE
    /\ why = "none"

Names == 1..NumThreads
MAX_RESTART_ATTEMPTS == 5

\* shutdown's stop hooks in the order of their calls: player.stop,
\* virtual_cam.cleanup_virtual_camera, xvfb_manager.stop_display
StopHooks == <<"player", "camera", "display">>

\* no signal handler for shutdown is installed
ShutdownOff ==
    /\ spc = "off"
    /\ main_running = TRUE
    /\ hooks = [h \in {StopHooks[i] : i \in 1..Len(StopHooks)} |-> "no"]

\* monitor() and the admin calls are not running
MonitorOff ==
    /\ threads = [n \in Names |-> FALSE]
    /\ restart_counters = [n \in Names |-> 0]
    /\ mpc = "off"
    /\ mi = 0
    /\ replaced = [n \in Names |-> FALSE]
    /\ flagged = {}
    /\ monStarts = [n \in Names |-> 0]
    /\ afterFlag = {}
    /\ orphans = [n \in Names |-> 0]
    /\ apc = "off"
    /\ aname = 0
    /\ manual = [n \in Names |-> FALSE]
    /\ abudget = 0

\* nothing of core/main.py is running
SupervisorOff == MonitorOff /\ ShutdownOff

FrontEnds == {"telegram", "discord"}
ReqIds == 1..MaxCmds
VALID_COMMANDS == {"pause", "resume", "skip", "stop", "reload"}
TelegramKinds == {"pause", "resume", "skip", "stop"}
CONTROL_BUTTONS == {"pause", "resume", "skip", "stop", "reload"}

\* the Controller thread and the front-ends have not been started
ControllerOff ==
    /\ cpc = "off"
    /\ last_request_ids = NoCommands
    /\ paused = FALSE
    /\ command_data = NoCommands
    /\ todo = {}
    /\ applied = [c \in Kinds \X ReqIds |-> 0]
    /\ nextReq = 1
    /\ fpc = [f \in FrontEnds |-> "off"]
    /\ fkind = [f \in FrontEnds |-> "none"]
    /\ fdata = NoCommands
    /\ fid = [f \in FrontEnds |-> 0]
    /\ ccmd = "none"
    /\ budget = 0

\* ------------------------------------------- SpecQueue: concurrent callers
InitStores == {<<>>} \cup
    {[i \in 1..n |-> [id |-> i, file_path |-> "none", duration |-> 2]] : n \in 1..MaxInit}

InitQueue ==
    /\ store0 \in InitStores
    /\ playlist = store0
    /\ playlistOK = TRUE
    /\ lockHolder = NoOne
    /\ docLocks = NoLocks
    /\ nextId = Len(store0) + 1
    /\ op \in [Workers -> Ops]
    /\ pc = [w \in Workers |-> "rd_wait"]
    /\ arg = [w \in Workers |-> 0]
    /\ queue = [w \in Workers |-> <<>>]
    /\ tries = [w \in Workers |-> 0]
    /\ result = [w \in Workers |-> 0]
    /\ stale = [w \in Workers |-> FALSE]
    /\ sawTorn = [w \in Workers |-> FALSE]
    /\ timedOut = [w \in Workers |-> "no"]
    /\ appended = <<>> /\ popped = <<>> /\ reordered = FALSE
    /\ PlayerOff
    /\ ControllerOff
    /\ issued = <<>>
    /\ SupervisorOff

InFlight(u) == pc[u] \in {"mutate", "wr_wait", "wr_locked"}

TimedOutAlt(n) == n >= 0
\* time.time() - start_time > timeout, in failed flock attempts
TimedOut(n) == n >= LockRetries

FlockAlt(holder) == TRUE
\* fcntl.flock(f, LOCK_EX | LOCK_NB) on a fresh open file description: granted
\* when no other description holds a lock on the file, BlockingIOError otherwise
Flock(holder) == holder = NoOne

UnlockAlt(holder) == holder
\* finally: fcntl.flock(f, LOCK_UN): nobody owns the lock
Unlock(holder) == NoOne

\* "with FileLock(path)": the caller enters the block when the lock on the
\* path is free
FileLock(holder) == Flock(holder)

\* locked_file: fcntl.flock(LOCK_EX | LOCK_NB) succeeds
LockAcquire(w) ==
    /\ pc[w] \in {"rd_wait", "wr_wait"}
    /\ Flock(lockHolder)
    /\ lockHolder' = w
    /\ pc' = [pc EXCEPT ![w] = IF pc[w] = "rd_wait" THEN "rd_locked" ELSE "wr_locked"]
    /\ tries' = [tries EXCEPT ![w] = 0]
    /\ UNCHANGED <<playlist, playlistOK, nextId, op, arg, queue, result,
                   stale, sawTorn, timedOut, store0, notQueue>>

\* locked_file: BlockingIOError, the timeout has not elapsed, sleep(retry_delay)
LockRetry(w) ==
    /\ pc[w] \in {"rd_wait", "wr_wait"}
    /\ ~Flock(lockHolder)
    /\ ~TimedOut(tries[w])
    /\ tries' = [tries EXCEPT ![w] = @ + 1]
    /\ UNCHANGED <<playlist, playlistOK, lockHolder, nextId, pc, op, arg, queue,
                   result, stale, sawTorn, timedOut, store0, notQueue>>

\* locked_file raises TimeoutError; load_playlist turns it into [], and
\* save_playlist logs it and returns
LockTimeout(w) ==
    /\ pc[w] \in {"rd_wait", "wr_wait"}
    /\ ~Flock(lockHolder)
    /\ TimedOut(tries[w])
    /\ IF pc[w] = "rd_wait"
       THEN /\ queue' = [queue EXCEPT ![w] = <<>>]
            /\ stale' = [stale EXCEPT ![w] = FALSE]
            /\ pc' = [pc EXCEPT ![w] = IF op[w] = "list" THEN "done" ELSE "mutate"]
       ELSE /\ pc' = [pc EXCEPT ![w] = "done"]
            /\ queue' = [queue EXCEPT ![w] = <<>>]
            /\ stale' = [stale EXCEPT ![w] = FALSE]
    /\ tries' = [tries EXCEPT ![w] = 0]
    /\ timedOut' = [timedOut EXCEPT ![w] = IF pc[w] = "rd_wait" THEN "read" ELSE "write"]
    /\ UNCHANGED <<playlist, playlistOK, lockHolder, nextId, op, arg, result,
                   sawTorn, store0, notQueue>>

\* read_locked_json inside load_playlist: json.load under the lock, release;
\* a document that does not parse makes load_playlist return []
ReadLockedJson(w) ==
    /\ pc[w] = "rd_locked"
    /\ queue' = [queue EXCEPT ![w] = LoadPlaylist(playlistOK, playlist)]
    /\ sawTorn' = [sawTorn EXCEPT ![w] = ~playlistOK]
    /\ stale' = [stale EXCEPT ![w] = FALSE]
    /\ lockHolder' = Unlock(lockHolder)
    /\ tries' = [tries EXCEPT ![w] = 0]
    /\ pc' = [pc EXCEPT ![w] = IF op[w] = "list" THEN "done" ELSE "mutate"]
    /\ UNCHANGED <<playlist, playlistOK, nextId, op, arg, result, timedOut,
                   store0, notQueue>>

\* the body of the mutator between load_playlist and save_playlist, then
\* write_locked_json's open(path, "w"), which truncates the file before flock
Mutate(w) ==
    /\ pc[w] = "mutate"
    /\ \E id \in 1..MaxInit, p \in Patches, d \in Durations :
         LET r == CASE op[w] = "append" -> AddToQueue(queue[w], GenerateEntry(nextId, d))
                    [] op[w] = "remove" -> RemoveById(queue[w], id)
                    [] op[w] = "pin"    -> PinNext(queue[w], id)
                    [] op[w] = "pop"    -> RemoveCurrent(queue[w])
                    [] OTHER            -> UpdateEntry(queue[w], id, p)
         IN /\ queue' = [queue EXCEPT ![w] = IF r.save THEN r.q ELSE <<>>]
            /\ result' = [result EXCEPT ![w] = r.ret]
            /\ arg' = [arg EXCEPT ![w] = IF op[w] \in {"append", "pop"} THEN 0 ELSE id]
            /\ nextId' = IF op[w] = "append" THEN nextId + 1 ELSE nextId
            /\ IF r.save
               THEN /\ playlist' = <<>>
                    /\ playlistOK' = FALSE
                    /\ stale' = [u \in Workers |-> IF u # w /\ InFlight(u) THEN TRUE ELSE stale[u]]
                    /\ pc' = [pc EXCEPT ![w] = "wr_wait"]
               ELSE /\ pc' = [pc EXCEPT ![w] = "done"]
                    /\ stale' = [stale EXCEPT ![w] = FALSE]
                    /\ UNCHANGED <<playlist, playlistOK>>
    /\ UNCHANGED <<lockHolder, op, tries, sawTorn, timedOut, store0, notQueue>>

\* write_locked_json: json.dump, flush, fsync under the lock, release. The
\* text goes to offset 0 of the file as it is now: when another writer has
\* dumped a longer document since this writer's open, its tail stays
WriteLockedJson(w) ==
    /\ pc[w] = "wr_locked"
    /\ IF playlistOK /\ Len(playlist) > Len(queue[w])
       THEN playlist' = <<>> /\ playlistOK' = FALSE
       ELSE playlist' = queue[w] /\ playlistOK' = TRUE
    /\ stale' = [u \in Workers |-> u # w /\ (InFlight(u) \/ stale[u])]
    /\ queue' = [queue EXCEPT ![w] = <<>>]
    /\ lockHolder' = Unlock(lockHolder)
    /\ pc' = [pc EXCEPT ![w] = "done"]
    /\ UNCHANGED <<nextId, op, arg, tries, result, sawTorn, timedOut, store0, notQueue>>

\* the next step of caller w
Caller(w) ==
    \/ LockAcquire(w)
    \/ LockRetry(w)
    \/ LockTimeout(w)
    \/ ReadLockedJson(w)
    \/ Mutate(w)
    \/ WriteLockedJson(w)

NextQueue == \E w \in Workers : Caller(w)

SpecQueue == InitQueue /\ [][NextQueue]_vars

AllAppend == \A w \in Workers : op[w] = "append"
AllDone == \A w \in Workers : pc[w] = "done"

\* C1: when every caller runs add_to_queue once, no load_playlist of theirs
\* reads a document that does not parse, and once all have returned the store
\* holds the entries it started with plus one entry per caller.
C1_AppendersAllLand ==
    AllAppend =>
        /\ \A w \in Workers : ~sawTorn[w]
        /\ AllDone =>
             /\ playlistOK
             /\ Len(playlist) = Len(store0) + NumWorkers
             /\ \A w \in Workers : result[w] \in Ids(playlist)

\* C2: a mutator that holds the lock for its write-back writes over the
\* document it read: no other caller has changed playlist.json since this
\* caller's load_playlist.
C2_ReadAndWriteInOneHold ==
    \A w \in Workers : pc[w] = "wr_locked" => ~stale[w]

\* C3: while a caller holds the lock for reading, the document is complete:
\* it is never the zero-length file a writer's open(path, "w") leaves.
C3_LockedReaderSeesWholeDocument ==
    \A w \in Workers : pc[w] = "rd_locked" => playlistOK

\* ----------------------------------------------------------- claims C11-C15
\* callers inside the guarded block of locked_file
Holders == {w \in Workers : pc[w] \in {"rd_locked", "wr_locked"}}
Waiting == {w \in Workers : pc[w] \in {"rd_wait", "wr_wait"}}

\* C11: at most one caller is inside the guarded block of playlist.json's
\* lock, that caller is the owner of the flock, and nobody owns it when no
\* caller is inside.
C11_OneHolder ==
    /\ Cardinality(Holders) <= 1
    /\ \A w \in Holders : lockHolder = w
    /\ Holders = {} => lockHolder = NoOne

C11_Witness ==
    \E w \in Holders, u \in Waiting : tries[u] > 0

\* C12: whenever a caller leaves the guarded block, by its normal end or by
\* the error json.load raises on a document that does not parse, the lock is
\* free.
C12_ReleasedOnExit ==
    [][\A w \in Workers :
          (pc[w] \in {"rd_locked", "wr_locked"} /\ pc'[w] \notin {"rd_locked", "wr_locked"})
          => lockHolder' = NoOne]_vars

\* a caller left its block by the error and another caller got the lock later
C12_Witness ==
    \E w \in Workers, u \in Holders : sawTorn[w] /\ w # u

\* C13: a caller that waits for the lock stops waiting; it gives up only
\* after LockRetries failed attempts, and the step that gives up leaves the
\* lock with its owner and the caller outside the guarded block.
C13_AcquisitionEnds ==
    /\ \A w \in Workers : [](w \in Waiting => <>(w \notin Waiting))
    /\ [](\A w \in Workers : tries[w] <= LockRetries)
    /\ [][\A w \in Workers :
            timedOut'[w] # timedOut[w] =>
                /\ tries[w] >= LockRetries
                /\ lockHolder' = lockHolder
                /\ lockHolder # w
                /\ pc'[w] \notin {"rd_locked", "wr_locked"}]_vars

C13_Witness ==
    \E w \in Workers, u \in Holders : timedOut[w] # "no" /\ pc[w] = "done"

\* C14: a mutator whose locked_file timed out, running next to callers that
\* only read, has returned without a result and playlist.json still holds
\* the entries it held before.
C14_TimeoutLeavesStore ==
    \A w \in Workers :
        (/\ op[w] \in Mutators
         /\ timedOut[w] # "no"
         /\ pc[w] = "done"
         /\ \A u \in Workers \ {w} : op[u] = "list")
        => /\ result[w] = 0
           /\ playlistOK
           /\ playlist = store0

InitSeq ==
    /\ store0 = <<>>
    /\ playlist = <<>>
    /\ playlistOK = TRUE
    /\ lockHolder = NoOne
    /\ docLocks = NoLocks
    /\ nextId = 1
    /\ op = [w \in Workers |-> "list"]
    /\ pc = [w \in Workers |-> "done"]
    /\ arg = [w \in Workers |-> 0]
    /\ queue = [w \in Workers |-> <<>>]
    /\ tries = [w \in Workers |-> 0]
    /\ result = [w \in Workers |-> 0]
    /\ stale = [w \in Workers |-> FALSE]
    /\ sawTorn = [w \in Workers |-> FALSE]
    /\ timedOut = [w \in Workers |-> "no"]
    /\ appended = <<>>
    /\ popped = <<>>
    /\ reordered = FALSE
    /\ PlayerOff
    /\ ControllerOff
    /\ issued = <<>>
    /\ SupervisorOff

SeqFrame == UNCHANGED <<playlistOK, lockHolder, pc, op, arg, queue, tries,
                        result, stale, sawTorn, timedOut, store0, pvars, cvars, uvars,
                        lvars>>

\* add_to_queue, from load_playlist to save_playlist
SeqAppend ==
    /\ nextId <= MaxSeqOps
    /\ \E d \in Durations :
         playlist' = AddToQueue(playlist, GenerateEntry(nextId, d)).q
    /\ appended' = Append(appended, nextId)
    /\ nextId' = nextId + 1
    /\ UNCHANGED <<popped, reordered>>
    /\ SeqFrame

\* remove_current
SeqPop ==
    /\ playlist # <<>>
    /\ playlist' = RemoveCurrent(playlist).q
    /\ popped' = Append(popped, RemoveCurrent(playlist).ret)
    /\ UNCHANGED <<nextId, appended, reordered>>
    /\ SeqFrame

\* one turn of play_loop on an entry without "file_path": get_next_video,
\* then play_video writes the rest back and returns
SeqEnginePop ==
    /\ playlist # <<>>
    /\ Head(playlist).file_path # "ok"
    /\ playlist' = GetNextVideo(playlist).rest
    /\ popped' = Append(popped, GetNextVideo(playlist).video)
    /\ UNCHANGED <<nextId, appended, reordered>>
    /\ SeqFrame

\* pin_next
SeqPin ==
    /\ \E id \in 1..MaxSeqOps :
         /\ playlist' = PinNext(playlist, id).q
         /\ reordered' = (reordered \/ PinNext(playlist, id).save)
    /\ UNCHANGED <<nextId, appended, popped>>
    /\ SeqFrame

\* remove_by_id
SeqRemove ==
    /\ \E id \in 1..MaxSeqOps :
         /\ playlist' = RemoveById(playlist, id).q
         /\ reordered' = (reordered \/ RemoveById(playlist, id).save)
    /\ UNCHANGED <<nextId, appended, popped>>
    /\ SeqFrame

NextSeq == SeqAppend \/ SeqPop \/ SeqEnginePop \/ SeqPin \/ SeqRemove

SpecSeq == InitSeq /\ [][NextSeq]_vars

\* C4: as long as no pin_next or remove_by_id has changed the store, the
\* entries popped so far are, in order, the first entries appended.
C4_Fifo ==
    ~reordered =>
        /\ Len(popped) <= Len(appended)
        /\ popped = SubSeq(appended, 1, Len(popped))

C4_Witness ==
    /\ ~reordered
    /\ Len(popped) >= 2
    /\ playlist # <<>>

\* ----------------------------------------------------------- claims C16-C17
\* C16: for every id in the store, pin_next(id) reports success and saves a
\* list of the same length whose first entry is the entry with that id and
\* whose other entries are the other entries of the store in their order.
C16_PinMovesOne ==
    \A id \in Ids(playlist) :
        LET r == PinNext(playlist, id) IN
        /\ r.save /\ r.ret = 1
        /\ Len(r.q) = Len(playlist)
        /\ r.q[1] = playlist[IndexOf(playlist, id)]
        /\ \A j \in 2..Len(r.q) : r.q[j].id # id
        /\ FilterOut(r.q, id) = FilterOut(playlist, id)

\* pin_next has moved an entry from the third place or later to the front
C16_Witness ==
    /\ reordered /\ popped = <<>>
    /\ Len(playlist) = Len(appended)
    /\ Len(playlist) >= 3
    /\ playlist[1].id >= 3
    /\ playlist[2].id < playlist[3].id

\* C17: remove_by_id with an id that is not in the store returns False and
\* does not call save_playlist; with an id that is in the store it returns
\* True and saves the store without that one entry, the others in place.
C17_RemoveExactlyOne ==
    \A id \in 1..(MaxSeqOps + 1) :
        LET r == RemoveById(playlist, id) IN
        IF id \notin Ids(playlist)
        THEN ~r.save /\ r.ret = 0 /\ r.q = playlist
        ELSE /\ r.save /\ r.ret = 1
             /\ Len(r.q) = Len(playlist) - 1
             /\ id \notin Ids(r.q)
             /\ r.q = RemoveAt(playlist, IndexOf(playlist, id))

\* remove_by_id has taken the second of three entries out of the store
C17_Witness ==
    /\ reordered /\ popped = <<>>
    /\ Len(appended) = 3
    /\ Len(playlist) = 2
    /\ playlist[1].id = 1 /\ playlist[2].id = 3

\* ------------------------------- SpecUpd: SpecSeq with update_entry
\* update_entry: entry.update(new_data) on the first entry with the id
SeqUpdate ==
    /\ \E id \in 1..MaxSeqOps, p \in Patches :
         /\ playlist' = UpdateEntry(playlist, id, p).q
         /\ reordered' = (reordered \/ (UpdateEntry(playlist, id, p).save /\ p.k = "id"))
    /\ UNCHANGED <<nextId, appended, popped>>
    /\ SeqFrame

NextUpd == NextSeq \/ SeqUpdate

SpecUpd == InitSeq /\ [][NextUpd]_vars

\* C24: the entries of playlist.json have pairwise distinct ids.
C24_IdsDistinct ==
    \A i, j \in 1..Len(playlist) : i # j => playlist[i].id # playlist[j].id

\* ------------------------------------------- SpecPlay: the playback engine
MaxPlayAlt(d) == IF d >= 0 THEN d ELSE FallbackCeiling
\* play_video: max_play = duration if duration > 0 else 3600
MaxPlay(d) == IF d > 0 THEN d ELSE FallbackCeiling

\* time.sleep(1) in the streaming loop: one second, or, past MaxTick counted
\* seconds, all the time left to the deadline
NextElapsed(e, mp) ==
    IF e < MaxTick THEN e + 1 ELSE IF mp > e + 1 THEN mp ELSE e + 1

PlayEntries == {[id |-> i, file_path |-> f, duration |-> d] :
                    i \in EntryIds, f \in {"ok", "none"}, d \in {0, 2}}
PlayStores == {q \in UNION {[1..n -> PlayEntries] : n \in 0..MaxInit} :
                    \A i \in 1..Len(q) : q[i].id = i}

CtlStores == {q \in PlayStores :
                \A i \in 1..Len(q) : q[i].file_path = "ok" /\ q[i].duration = 2}

Loading == {"play", "launch", "retry_sleep"}
Streaming == {"skipchk", "reset", "pollproc"}
Idle == {"loop", "idle_sleep"}

\* play_loop: retries = 0; get_next_video under the lock; empty or corrupted
\* playlist: sleep
GetNext ==
    /\ epc = "loop"
    /\ running
    /\ FileLock(lockHolder)
    /\ retries' = 0
    /\ IF playlistOK /\ playlist # <<>>
       THEN /\ cur' = Head(playlist)
            /\ updated' = GetNextVideo(playlist).rest
            /\ epc' = "play"
       ELSE /\ cur' = NoEntry
            /\ updated' = <<>>
            /\ epc' = "idle_sleep"
    /\ UNCHANGED <<playlist, playlistOK, running, elapsed, process, nowPlaying,
                   control, controlOK, launches, ended, crashed, why, notPlayer>>

\* time.sleep(10); continue
IdleWake ==
    /\ epc = "idle_sleep"
    /\ epc' = "loop"
    /\ UNCHANGED <<playlist, playlistOK, running, cur, updated, retries, elapsed,
                   process, nowPlaying, control, controlOK, launches, ended,
                   crashed, why, notPlayer>>

\* play_video: missing file: write_updated_playlist and return; otherwise
\* update_now_playing writes "<path>|<seconds>"
PlayVideoBegin ==
    /\ epc = "play"
    /\ cur.file_path # "ok" => FileLock(lockHolder)
    /\ IF cur.file_path # "ok"
       THEN /\ playlist' = updated
            /\ playlistOK' = TRUE
            /\ ended' = [ended EXCEPT ![cur.id] = "nofile"]
            /\ epc' = "loop"
            /\ UNCHANGED nowPlaying
       ELSE /\ nowPlaying' = [shape |-> "legacy", id |-> cur.id]
            /\ epc' = "launch"
            /\ UNCHANGED <<playlist, playlistOK, ended>>
    /\ UNCHANGED <<running, cur, updated, retries, elapsed, process, control,
                   controlOK, launches, crashed, why, notPlayer>>

\* launch_ffmpeg returns a process; start_time = time.time(); first test of
\* "time.time() - start_time < max_play"
Launch ==
    /\ epc = "launch"
    /\ process' = "alive"
    /\ launches' = [launches EXCEPT ![cur.id] = @ + 1]
    /\ elapsed' = 0
    /\ IF 0 < MaxPlay(cur.duration)
       THEN epc' = "skipchk" /\ why' = "none"
       ELSE epc' = "terminate" /\ why' = "elapsed"
    /\ UNCHANGED <<playlist, playlistOK, running, cur, updated, retries,
                   nowPlaying, control, controlOK, ended, crashed, notPlayer>>

\* launch_ffmpeg raises (Popen cannot start the emitter): play_loop counts a retry
LaunchFail ==
    /\ epc = "launch"
    /\ launches' = [launches EXCEPT ![cur.id] = @ + 1]
    /\ retries' = retries + 1
    /\ epc' = "retry_sleep"
    /\ UNCHANGED <<playlist, playlistOK, running, cur, updated, elapsed, process,
                   nowPlaying, control, controlOK, ended, crashed, why, notPlayer>>

\* time.sleep(2), then the test of "while retries < self.retry_limit"
RetrySleep ==
    /\ epc = "retry_sleep"
    /\ epc' = IF retries < RetryLimit THEN "play" ELSE "giveup"
    /\ UNCHANGED <<playlist, playlistOK, running, cur, updated, retries, elapsed,
                   process, nowPlaying, control, controlOK, launches, ended,
                   crashed, why, notPlayer>>

\* retries >= retry_limit: clear_now_playing, write_updated_playlist
GiveUp ==
    /\ epc = "giveup"
    /\ FileLock(lockHolder)
    /\ nowPlaying' = NothingPlaying
    /\ playlist' = updated
    /\ playlistOK' = TRUE
    /\ ended' = [ended EXCEPT ![cur.id] = "giveup"]
    /\ epc' = "loop"
    /\ UNCHANGED <<running, cur, updated, retries, elapsed, process, control,
                   controlOK, launches, crashed, why, notPlayer>>

\* should_skip: data.get("skip", False) under the lock; an unreadable
\* document counts as no skip
ShouldSkip ==
    /\ epc = "skipchk"
    /\ epc' = IF controlOK /\ control["skip"] # 0 THEN "reset" ELSE "pollproc"
    /\ UNCHANGED <<playlist, playlistOK, running, cur, updated, retries, elapsed,
                   process, nowPlaying, control, controlOK, launches, ended,
                   crashed, why, notPlayer>>

\* reset_controls writes {} and the loop breaks
ResetControls ==
    /\ epc = "reset"
    /\ control' = NoCommands
    /\ controlOK' = TRUE
    /\ why' = "skip"
    /\ epc' = "terminate"
    /\ UNCHANGED <<playlist, playlistOK, running, cur, updated, retries, elapsed,
                   process, nowPlaying, launches, ended, crashed, notPlayer>>

\* process.poll(): an emitter that is gone breaks the loop; otherwise
\* time.sleep(1) and the test of "time.time() - start_time < max_play"
PollProcess ==
    /\ epc = "pollproc"
    /\ IF process # "alive"
       THEN /\ why' = "exit"
            /\ epc' = "terminate"
            /\ UNCHANGED elapsed
       ELSE /\ elapsed' = NextElapsed(elapsed, MaxPlay(cur.duration))
            /\ IF elapsed' < MaxPlay(cur.duration)
               THEN epc' = "skipchk" /\ UNCHANGED why
               ELSE epc' = "terminate" /\ why' = "elapsed"
    /\ UNCHANGED <<playlist, playlistOK, running, cur, updated, retries, process,
                   nowPlaying, control, controlOK, launches, ended, crashed,
                   notPlayer>>

\* if self.process and self.process.poll() is None: terminate()
Terminate ==
    /\ epc = "terminate"
    /\ process' = IF process = "alive" THEN "terminated" ELSE process
    /\ epc' = "clear"
    /\ UNCHANGED <<playlist, playlistOK, running, cur, updated, retries, elapsed,
                   nowPlaying, control, controlOK, launches, ended, crashed, why,
                   notPlayer>>

\* clear_now_playing
ClearNowPlaying ==
    /\ epc = "clear"
    /\ nowPlaying' = NothingPlaying
    /\ epc' = "writeback"
    /\ UNCHANGED <<playlist, playlistOK, running, cur, updated, retries, elapsed,
                   process, control, controlOK, launches, ended, crashed, why,
                   notPlayer>>

\* write_updated_playlist(updated_playlist); time.sleep(1); back in play_loop
WriteUpdatedPlaylist ==
    /\ epc = "writeback"
    /\ FileLock(lockHolder)
    /\ playlist' = updated
    /\ playlistOK' = TRUE
    /\ ended' = [ended EXCEPT ![cur.id] = why]
    /\ epc' = "loop"
    /\ UNCHANGED <<running, cur, updated, retries, elapsed, process, nowPlaying,
                   control, controlOK, launches, crashed, why, notPlayer>>

\* the emitter process exits by itself
EmitterExit ==
    /\ process = "alive"
    /\ process' = "exited"
    /\ crashed' = TRUE
    /\ UNCHANGED <<playlist, playlistOK, epc, running, cur, updated, retries,
                   elapsed, nowPlaying, control, controlOK, launches, ended, why,
                   notPlayer>>

Engine ==
    \/ GetNext \/ IdleWake \/ PlayVideoBegin \/ Launch \/ LaunchFail
    \/ RetrySleep \/ GiveUp \/ ShouldSkip \/ ResetControls \/ PollProcess
    \/ Terminate \/ ClearNowPlaying \/ WriteUpdatedPlaylist

\* ------------------------------------------------- command front-ends
\* number of commands in a control document
Size(doc) == Cardinality({k \in DocKinds : doc[k] # 0})

\* a handler of telegramcontrol / a button of discordbot is invoked
IssueBegin(f, k) ==
    /\ fpc[f] = "idle"
    /\ budget > 0
    /\ budget' = budget - 1
    /\ k \in (IF f = "telegram" THEN TelegramKinds ELSE CONTROL_BUTTONS)
    /\ fkind' = [fkind EXCEPT ![f] = k]
    /\ fid' = [fid EXCEPT ![f] = nextReq]
    /\ nextReq' = nextReq + 1
    /\ fpc' = [fpc EXCEPT ![f] = IF f = "telegram" THEN "open" ELSE "read"]
    /\ UNCHANGED <<cpc, last_request_ids, paused, command_data, todo, applied,
                   fdata, ccmd, issued, docvars, wvars, svars, lvars, uvars, pvars>>

\* discordbot.on_interaction: data = read_locked_json(CONTROL_FILE); a
\* document that does not parse ends the handler in its except branch
DiscordRead ==
    /\ fpc["discord"] = "read"
    /\ IF controlOK
       THEN /\ fdata' = control
            /\ fpc' = [fpc EXCEPT !["discord"] = "open"]
            /\ UNCHANGED <<fkind, fid>>
       ELSE /\ fpc' = [fpc EXCEPT !["discord"] = "idle"]
            /\ fkind' = [fkind EXCEPT !["discord"] = "none"]
            /\ fid' = [fid EXCEPT !["discord"] = 0]
            /\ UNCHANGED fdata
    /\ UNCHANGED <<cpc, last_request_ids, paused, command_data, todo, applied,
                   nextReq, ccmd, issued, budget, docvars, wvars,
                   svars, lvars, uvars, pvars>>

\* write_locked_json(CONTROL_FILE, ...): open(path, "w") empties the file
IssueOpen(f) ==
    /\ fpc[f] = "open"
    /\ control' = NoCommands
    /\ controlOK' = FALSE
    /\ fpc' = [fpc EXCEPT ![f] = "dump"]
    /\ UNCHANGED <<cpc, last_request_ids, paused, command_data, todo, applied,
                   nextReq, fkind, fdata, fid, ccmd, issued, budget, docvars,
                   wvars, svars, lvars, uvars, epc, running, cur, updated, retries, elapsed, process,
                   nowPlaying, launches, ended, crashed, why>>

\* write_locked_json: json.dump under the lock. send_control_signal writes a
\* document with the one command; on_interaction writes the document it read
\* with the command's kind replaced
IssueDump(f) ==
    /\ fpc[f] = "dump"
    /\ LET doc == IF f = "telegram"
                  THEN [k \in DocKinds |-> IF k = fkind[f] THEN fid[f] ELSE 0]
                  ELSE [fdata EXCEPT ![fkind[f]] = fid[f]]
       IN IF controlOK /\ Size(control) > Size(doc)
          THEN control' = NoCommands /\ controlOK' = FALSE
          ELSE control' = doc /\ controlOK' = TRUE
    /\ issued' = Append(issued, [kind |-> fkind[f], id |-> fid[f],
                                 during |-> IF epc \in Streaming
                                            THEN cur.id ELSE 0])
    /\ fpc' = [fpc EXCEPT ![f] = "idle"]
    /\ fkind' = [fkind EXCEPT ![f] = "none"]
    /\ fid' = [fid EXCEPT ![f] = 0]
    /\ fdata' = IF f = "discord" THEN NoCommands ELSE fdata
    /\ UNCHANGED <<cpc, last_request_ids, paused, command_data, todo, applied,
                   nextReq, ccmd, budget, docvars, wvars,
                   svars, lvars, uvars, epc, running, cur, updated, retries, elapsed, process,
                   nowPlaying, launches, ended, crashed, why>>

FrontEnd ==
    \/ \E f \in FrontEnds, k \in Kinds : IssueBegin(f, k)
    \/ DiscordRead
    \/ \E f \in FrontEnds : IssueOpen(f) \/ IssueDump(f)

\* ------------------------------------------------------ the control loop
\* FFmpegPlayer.stop_stream: the live emitter is terminated
StopStream(p) == IF p = "alive" THEN "terminated" ELSE p

\* _watch_loop / _check_for_new_command: read_locked_json(CONTROL_FILE); a
\* document that does not parse raises into _watch_loop, which logs and sleeps
CtlPoll ==
    /\ cpc = "poll"
    /\ IF controlOK
       THEN /\ command_data' = control
            /\ todo' = {k \in DocKinds : control[k] # 0}
            /\ cpc' = "iter"
       ELSE UNCHANGED <<command_data, todo, cpc>>
    /\ UNCHANGED <<last_request_ids, paused, applied, ccmd, fvars, docvars,
                   wvars, svars, lvars, uvars, pvars>>

AcceptedAlt(k, id) == k \in VALID_COMMANDS
\* _check_for_new_command: the command is in VALID_COMMANDS and its payload
\* has a request id
Accepted(k, id) == k \in VALID_COMMANDS /\ id > 0

RecordedAlt(ids, k, id) == ids
\* self.last_request_ids[command] = request_id, the statement before the
\* call of _apply_command
Recorded(ids, k, id) == [ids EXCEPT ![k] = id]

\* one turn of "for command, payload in command_data.items()" up to the call
\* of _apply_command: unknown kind, missing id and duplicate are skipped
CtlVisit ==
    /\ cpc = "iter"
    /\ \E k \in todo :
         /\ todo' = todo \ {k}
         /\ IF Accepted(k, command_data[k])
               /\ last_request_ids[k] # command_data[k]
            THEN /\ last_request_ids' = Recorded(last_request_ids, k, command_data[k])
                 /\ applied' = [applied EXCEPT ![<<k, command_data[k]>>] = @ + 1]
                 /\ ccmd' = k
                 /\ cpc' = "apply"
            ELSE UNCHANGED <<last_request_ids, applied, ccmd, cpc>>
    /\ UNCHANGED <<paused, command_data, fvars, docvars, wvars, svars, lvars, uvars, pvars>>

\* the for loop is over: _check_for_new_command returns (its local
\* command_data is gone) and _watch_loop sleeps
CtlSleep ==
    /\ cpc = "iter"
    /\ todo = {}
    /\ cpc' = "poll"
    /\ command_data' = NoCommands
    /\ UNCHANGED <<last_request_ids, paused, todo, applied, ccmd,
                   fvars, docvars, wvars, svars, lvars, uvars, pvars>>

\* _handle_pause
HandlePause ==
    /\ cpc = "apply" /\ ccmd = "pause"
    /\ IF paused
       THEN UNCHANGED <<paused, process>>
       ELSE /\ paused' = TRUE
            /\ process' = StopStream(process)
    /\ cpc' = "iter"
    /\ ccmd' = "none"
    /\ UNCHANGED <<last_request_ids, command_data, todo, applied, fvars,
                   docvars, wvars, svars, lvars, uvars, eprivate, nowPlaying, control,
                   controlOK, launches>>

AfterResumeAlt(p) == "run_once"
\* _handle_resume: "if not self.paused: return", else on to run_once
AfterResume(p) == IF p THEN "run_once" ELSE "iter"

\* _handle_resume, up to the call of run_once
HandleResume ==
    /\ cpc = "apply" /\ ccmd = "resume"
    /\ cpc' = AfterResume(paused)
    /\ paused' = FALSE
    /\ ccmd' = "none"
    /\ UNCHANGED <<last_request_ids, command_data, todo, applied, fvars,
                   docvars, wvars, svars, lvars, uvars, pvars>>

\* _handle_skip: paused = False; stop_stream()
HandleSkip ==
    /\ cpc = "apply" /\ ccmd = "skip"
    /\ paused' = FALSE
    /\ process' = StopStream(process)
    /\ cpc' = "skip_next"
    /\ ccmd' = "none"
    /\ UNCHANGED <<last_request_ids, command_data, todo, applied, fvars,
                   docvars, wvars, svars, lvars, uvars, eprivate, nowPlaying, control,
                   controlOK, launches>>

\* _handle_skip: get_next_item() peeks at the store; set_now_playing writes
\* the JSON record of that entry
SkipNext ==
    /\ cpc = "skip_next"
    /\ IF GetNextItem(playlistOK, playlist).id # 0
       THEN /\ nowPlaying' = [shape |-> "json", id |-> GetNextItem(playlistOK, playlist).id]
            /\ cpc' = "run_once"
       ELSE /\ cpc' = "iter"
            /\ UNCHANGED nowPlaying
    /\ UNCHANGED <<last_request_ids, paused, command_data, todo, applied, ccmd,
                   fvars, docvars, wvars, svars, lvars, uvars, eprivate, process, control,
                   controlOK, launches>>

\* FFmpegPlayer.run_once: one run cycle from Idle: the front entry is popped
\* from the store and its emitter is launched
RunOnce ==
    /\ cpc = "run_once"
    /\ IF playlistOK /\ playlist # <<>>
       THEN /\ playlist' = Tail(playlist)
            /\ process' = "alive"
            /\ launches' = [launches EXCEPT ![Head(playlist).id] = @ + 1]
       ELSE UNCHANGED <<playlist, process, launches>>
    /\ cpc' = "iter"
    /\ UNCHANGED <<last_request_ids, paused, command_data, todo, applied, ccmd,
                   fvars, playlistOK, wvars, svars, lvars, uvars, eprivate, nowPlaying,
                   control, controlOK>>

\* _handle_stop
HandleStop ==
    /\ cpc = "apply" /\ ccmd = "stop"
    /\ paused' = FALSE
    /\ process' = StopStream(process)
    /\ cpc' = "iter"
    /\ ccmd' = "none"
    /\ UNCHANGED <<last_request_ids, command_data, todo, applied, fvars,
                   docvars, wvars, svars, lvars, uvars, eprivate, nowPlaying, control,
                   controlOK, launches>>

\* _handle_reload
HandleReload ==
    /\ cpc = "apply" /\ ccmd = "reload"
    /\ cpc' = "iter"
    /\ ccmd' = "none"
    /\ UNCHANGED <<last_request_ids, paused, command_data, todo, applied,
                   fvars, docvars, wvars, svars, lvars, uvars, pvars>>

Controller ==
    \/ CtlPoll \/ CtlVisit \/ CtlSleep
    \/ HandlePause \/ HandleResume \/ HandleSkip \/ SkipNext \/ RunOnce
    \/ HandleStop \/ HandleReload

ControllerOn(n, fes) ==
    /\ budget = n
    /\ cpc = "poll"
    /\ last_request_ids = NoCommands
    /\ paused = FALSE
    /\ command_data = NoCommands
    /\ todo = {}
    /\ applied = [c \in Kinds \X ReqIds |-> 0]
    /\ nextReq = 1
    /\ fpc = [f \in FrontEnds |-> IF f \in fes THEN "idle" ELSE "off"]
    /\ fkind = [f \in FrontEnds |-> "none"]
    /\ fdata = NoCommands
    /\ fid = [f \in FrontEnds |-> 0]
    /\ ccmd = "none"
    /\ issued = <<>>

\* no caller of core/queue.py is running
CallersOff ==
    /\ lockHolder = NoOne
    /\ docLocks = NoLocks
    /\ nextId = MaxInit + 1
    /\ op = [w \in Workers |-> "list"]
    /\ pc = [w \in Workers |-> "done"]
    /\ arg = [w \in Workers |-> 0]
    /\ queue = [w \in Workers |-> <<>>]
    /\ tries = [w \in Workers |-> 0]
    /\ result = [w \in Workers |-> 0]
    /\ stale = [w \in Workers |-> FALSE]
    /\ sawTorn = [w \in Workers |-> FALSE]
    /\ timedOut = [w \in Workers |-> "no"]
    /\ appended = <<>>
    /\ popped = <<>>
    /\ reordered = FALSE

QueueOff == SupervisorOff /\ CallersOff

\* SpecCtl: the Controller thread and the front-ends; the Player thread is
\* not running, an emitter may be
InitCtl ==
    /\ QueueOff
    /\ ControllerOn(MaxCmds, FrontEnds)
    /\ store0 \in CtlStores
    /\ playlist = store0
    /\ playlistOK = TRUE
    /\ epc = "off"
    /\ running = FALSE
    /\ cur = NoEntry
    /\ updated = <<>>
    /\ retries = 0
    /\ elapsed = 0
    /\ process \in {"none", "alive"}
    /\ nowPlaying = NothingPlaying
    /\ control = NoCommands
    /\ controlOK = TRUE
    /\ launches = [i \in EntryIds |-> 0]
    /\ ended = [i \in EntryIds |-> "no"]
    /\ crashed = FALSE
    /\ why = "none"

NextCtl == Controller \/ FrontEnd

SpecCtl == InitCtl /\ [][NextCtl]_vars

\* SpecPlay: Player thread, Controller thread, the emitter and one of the
\* front-ends (the Telegram bot or the Discord bot) in use
InitPlay ==
    /\ QueueOff
    /\ \E f \in FrontEnds : ControllerOn(MaxPlayCmds, {f})
    /\ store0 \in PlayStores
    /\ playlist = store0
    /\ playlistOK = TRUE
    /\ epc = "loop"
    /\ running = TRUE
    /\ cur = NoEntry
    /\ updated = <<>>
    /\ retries = 0
    /\ elapsed = 0
    /\ process = "none"
    /\ nowPlaying = NothingPlaying
    /\ control = NoCommands
    /\ controlOK = TRUE
    /\ launches = [i \in EntryIds |-> 0]
    /\ ended = [i \in EntryIds |-> "no"]
    /\ crashed = FALSE
    /\ why = "none"

NextPlay == Engine \/ EmitterExit \/ Controller \/ FrontEnd

SpecPlay == InitPlay /\ [][NextPlay]_vars

\* SpecStore: callers of get_queue and remove_current and the Player thread
\* on a playlist.json whose entries have no media file; the document may be
\* the zero-length file an interrupted writer left
StoreOps == {"list", "pop"}

StoreCallers ==
    /\ \/ store0 \in InitStores /\ playlistOK = TRUE
       \/ store0 = <<>> /\ playlistOK = FALSE
    /\ playlist = store0
    /\ lockHolder = NoOne
    /\ docLocks = NoLocks
    /\ nextId = Len(store0) + 1
    /\ op \in [Workers -> StoreOps]
    /\ pc = [w \in Workers |-> "rd_wait"]
    /\ arg = [w \in Workers |-> 0]
    /\ queue = [w \in Workers |-> <<>>]
    /\ tries = [w \in Workers |-> 0]
    /\ result = [w \in Workers |-> 0]
    /\ stale = [w \in Workers |-> FALSE]
    /\ sawTorn = [w \in Workers |-> FALSE]
    /\ timedOut = [w \in Workers |-> "no"]
    /\ appended = <<>> /\ popped = <<>> /\ reordered = FALSE
    /\ ControllerOff
    /\ issued = <<>>
    /\ SupervisorOff

InitStore ==
    /\ StoreCallers
    /\ epc = "loop"
    /\ running = TRUE
    /\ cur = NoEntry
    /\ updated = <<>>
    /\ retries = 0
    /\ elapsed = 0
    /\ process = "none"
    /\ nowPlaying = NothingPlaying
    /\ control = NoCommands
    /\ controlOK = TRUE
    /\ launches = [i \in EntryIds |-> 0]
    /\ ended = [i \in EntryIds |-> "no"]
    /\ crashed = FALSE
    /\ why = "none"

NextStore == NextQueue \/ GetNext \/ IdleWake \/ PlayVideoBegin

SpecStore == InitStore /\ [][NextStore]_vars

\* FileLock's timeout expires while another caller owns the lock of
\* playlist.json. In get_next_video (play_loop, outside the try) and in the
\* write_updated_playlist of the give-up branch the error leaves play_loop,
\* run_player and the thread's target: the Player thread ends. In play_video
\* it is caught by play_loop and counted as a retry
FileLockTimeout ==
    /\ epc \in {"loop", "play", "giveup"}
    /\ epc = "loop" => running
    /\ epc = "play" => cur.file_path # "ok"
    /\ ~FileLock(lockHolder)
    /\ IF epc = "play"
       THEN /\ retries' = retries + 1
            /\ epc' = "retry_sleep"
            /\ UNCHANGED <<running, nowPlaying>>
       ELSE /\ epc' = "dead"
            /\ running' = FALSE
            /\ retries' = 0
            /\ nowPlaying' = IF epc = "giveup" THEN NothingPlaying ELSE nowPlaying
    /\ UNCHANGED <<playlist, playlistOK, cur, updated, elapsed, process, control,
                   controlOK, launches, ended, crashed, why, notPlayer>>

\* SpecFault: SpecStore with the timeout of the engine's FileLock
NextFault == NextStore \/ FileLockTimeout \/ RetrySleep \/ GiveUp

SpecFault == InitStore /\ [][NextFault]_vars

\* C22: the Player thread and the Controller thread never leave their loops:
\* whatever a turn of the loop ran into, the thread is alive for the next.
C22_FaultKeepsLoop ==
    /\ epc # "dead"
    /\ cpc # "dead"

\* SpecLock: the callers of SpecStore without the Player thread
InitLock == StoreCallers /\ PlayerOff

SpecLock == InitLock /\ [][NextQueue]_vars

\* every caller is a thread of its own and its next step never blocks:
\* flock is called with LOCK_NB and the loop sleeps retry_delay
SpecLockFair == SpecLock /\ \A w \in Workers : WF_vars(Caller(w))

\* SpecEngine: the Player thread and the emitter alone. control.json is the
\* file the last run left: empty, or holding a skip that nobody has reset
\* (Config._initialize_files creates the file only when it is missing)
LeftOver == [kind |-> "skip", id |-> 1, during |-> 0]

InitEngine ==
    /\ QueueOff
    /\ ControllerOff
    /\ store0 \in PlayStores
    /\ playlist = store0
    /\ playlistOK = TRUE
    /\ epc = "loop"
    /\ running = TRUE
    /\ cur = NoEntry
    /\ updated = <<>>
    /\ retries = 0
    /\ elapsed = 0
    /\ process = "none"
    /\ nowPlaying = NothingPlaying
    /\ \/ control = NoCommands /\ issued = <<>>
       \/ /\ control = [NoCommands EXCEPT ![LeftOver.kind] = LeftOver.id]
          /\ issued = <<LeftOver>>
    /\ controlOK = TRUE
    /\ launches = [i \in EntryIds |-> 0]
    /\ ended = [i \in EntryIds |-> "no"]
    /\ crashed = FALSE
    /\ why = "none"

NextEngine == Engine \/ EmitterExit

SpecEngine == InitEngine /\ [][NextEngine]_vars

\* ------------------------------------------------------------ claims C5-C9
\* C5: while the engine is Loading or Streaming an entry, that entry is not
\* in playlist.json any more.
C5_BegunEntryLeftStore ==
    epc \in (Loading \cup Streaming) => cur.id \notin Ids(playlist)

\* C6: no (kind, request id) has its handler applied more than once.
C6_AppliedOnce ==
    \A c \in Kinds \X ReqIds : applied[c] <= 1

\* the request id of the last command of kind k written to control.json
LastIssued(k) ==
    LET S == {i \in 1..Len(issued) : issued[i].kind = k} IN
    IF S = {} THEN 0 ELSE issued[CHOOSE i \in S : \A j \in S : j <= i].id

\* C18: with no write of control.json in progress and nothing consumed, the
\* document holds for every kind the last command issued of that kind:
\* issuing a command of another kind has not removed or changed it.
C18_PerKindLastWrite ==
    (controlOK /\ \A f \in FrontEnds : fpc[f] \notin {"open", "dump"})
        => \A k \in Kinds : control[k] = LastIssued(k)

\* C19: while now_playing.txt holds what update_now_playing wrote for an
\* entry, get_now_playing returns a record, full or degraded, never None.
C19_GetWhilePlaying ==
    nowPlaying.shape = "legacy"
        => GetNowPlaying(nowPlaying, playlistOK, playlist) \in {"full", "degraded"}

SkipDuringFirst ==
    /\ Len(store0) = 2
    /\ \A i \in 1..2 : store0[i].file_path = "ok" /\ store0[i].duration = 2
    /\ ~crashed
    /\ Len(issued) = 1
    /\ issued[1].kind = "skip"
    /\ issued[1].during = 1

\* C7: queue [a, b], the emitter never exits by itself, one skip written
\* while a streams and seen before a's time is up: once the engine has left
\* both entries, a was ended early, b was launched exactly once and streamed
\* for its duration, and playlist.json is empty.
C7_SkipThenNext ==
    (/\ SkipDuringFirst
     /\ epc \in Idle
     /\ ended[1] \notin {"no", "elapsed"}
     /\ ended[2] # "no")
    => /\ ended[1] \in {"skip", "exit"}
       /\ launches[1] = 1
       /\ launches[2] = 1
       /\ ended[2] = "elapsed"
       /\ playlist = <<>>

\* C25: whenever the Player thread is Idle and no emitter is alive,
\* now_playing.txt is empty.
C25_IdleMeansCleared ==
    (epc \in Idle /\ process # "alive") => nowPlaying = NothingPlaying

\* C26: while paused is set, no step takes an entry from playlist.json into
\* the engine and no step launches an emitter.
C26_PausedNoAdvance ==
    [][(paused /\ paused') =>
          /\ launches' = launches
          /\ ~(epc = "loop" /\ epc' = "play")]_vars

\* queue [a, b], the emitter never exits by itself, and the one command
\* issued is a stop written while a streams
StopDuringFirst ==
    /\ Len(store0) = 2
    /\ \A i \in 1..2 : store0[i].file_path = "ok" /\ store0[i].duration = 2
    /\ ~crashed
    /\ Len(issued) = 1
    /\ issued[1].kind = "stop"
    /\ issued[1].during = 1

\* C27: when the stop has been applied and has ended a's emitter, b is not
\* begun: it stays in playlist.json and no emitter is launched for it.
C27_StopDoesNotAdvance ==
    (/\ StopDuringFirst
     /\ applied[<<"stop", issued[1].id>>] = 1
     /\ ended[1] = "exit")
    => /\ launches[2] = 0
       /\ 2 \in Ids(playlist)

\* C30: an entry without media file is left with no emitter launched for
\* it; an entry whose launch_ffmpeg raised is left after that one attempt:
\* once a launch has failed the engine does not go back to play_video for
\* the entry.
C30_UnplayableDropped ==
    /\ \A i \in EntryIds :
         /\ ended[i] = "nofile" => launches[i] = 0
         /\ ended[i] = "giveup" => launches[i] = 1
    /\ retries > 0 => epc \notin {"play", "launch"}

\* C8: with no command issued, an entry whose emitter exited by itself is
\* left only after launch_ffmpeg was called retry_limit times for it.
C8_CrashRetried ==
    \A i \in EntryIds :
        (issued = <<>> /\ ended[i] = "exit") => launches[i] = RetryLimit

\* C9: with no command issued and an emitter that never exits by itself, the
\* engine streams while the elapsed time is below the entry's duration (3600
\* when the duration is 0), leaves the streaming loop only for that reason
\* and with the time reached, and from there on the emitter is not alive;
\* once it is back in play_loop now_playing.txt is empty.
C9_StreamsForDuration ==
    (issued = <<>> /\ ~crashed) =>
        LET deadline == IF cur.duration > 0 THEN cur.duration ELSE FallbackCeiling IN
        /\ epc \in Streaming =>
             /\ elapsed < deadline
             /\ process = "alive"
             /\ nowPlaying = [shape |-> "legacy", id |-> cur.id]
        /\ epc = "terminate" => why = "elapsed" /\ elapsed >= deadline
        /\ epc \in {"clear", "writeback"} => process # "alive"
        /\ epc \in {"writeback"} \cup Idle =>
             /\ process # "alive"
             /\ nowPlaying = NothingPlaying
        /\ \A i \in EntryIds : ended[i] \in {"no", "elapsed", "nofile", "giveup"}

C9_Witness ==
    /\ issued = <<>> /\ ~crashed
    /\ epc \in Idle
    /\ Len(store0) = 2
    /\ store0[1].duration = 2 /\ store0[2].duration = 0
    /\ ended[1] = "elapsed" /\ ended[2] = "elapsed"
    /\ elapsed = FallbackCeiling
    /\ nowPlaying = NothingPlaying

\* ------------------------------------------------- SpecSup: the supervisor
AlreadyRunningAlt(alive) == FALSE
\* start_thread: name in threads and threads[name].is_alive()
AlreadyRunning(alive) == alive

AtCeilingAlt(attempts) == attempts > MAX_RESTART_ATTEMPTS
\* monitor: if attempts >= MAX_RESTART_ATTEMPTS
AtCeiling(attempts) == attempts >= MAX_RESTART_ATTEMPTS

SupFrame == UNCHANGED <<qvars, svars, lvars, pvars, cvars, hvars>>

\* init_all has started every worker; monitor() begins
InitSup ==
    /\ store0 = <<>> /\ playlist = <<>> /\ playlistOK = TRUE
    /\ lockHolder = NoOne
    /\ docLocks = NoLocks
    /\ nextId = 1
    /\ op = [w \in Workers |-> "list"]
    /\ pc = [w \in Workers |-> "done"]
    /\ arg = [w \in Workers |-> 0]
    /\ queue = [w \in Workers |-> <<>>]
    /\ tries = [w \in Workers |-> 0]
    /\ result = [w \in Workers |-> 0]
    /\ stale = [w \in Workers |-> FALSE]
    /\ sawTorn = [w \in Workers |-> FALSE]
    /\ timedOut = [w \in Workers |-> "no"]
    /\ appended = <<>> /\ popped = <<>> /\ reordered = FALSE
    /\ PlayerOff
    /\ ControllerOff
    /\ issued = <<>>
    /\ threads = [n \in Names |-> TRUE]
    /\ restart_counters = [n \in Names |-> 0]
    /\ mpc = "scan"
    /\ mi = 0
    /\ replaced = [n \in Names |-> FALSE]
    /\ flagged = {}
    /\ monStarts = [n \in Names |-> 0]
    /\ afterFlag = {}
    /\ orphans = [n \in Names |-> 0]
    /\ apc = "idle"
    /\ aname = 0
    /\ manual = [n \in Names |-> FALSE]
    /\ abudget = MaxManual
    /\ ShutdownOff

\* wrapper: target() returns or raises (the exception is logged); the thread ends
ThreadExit(n) ==
    /\ threads[n]
    /\ threads' = [threads EXCEPT ![n] = FALSE]
    /\ UNCHANGED <<restart_counters, mpc, mi, replaced, flagged, monStarts,
                   afterFlag, orphans, apc, aname, manual, abudget>>
    /\ SupFrame

\* the monitor's current cycle has yet to test the thread object it holds for
\* name n in its list(threads.items())
Pending(n) ==
    /\ mpc \in {"visit", "backoff", "create"}
    /\ n > mi \/ (n = mi /\ mpc = "visit")

\* monitor: for name, thread in list(threads.items())
MonScan ==
    /\ mpc = "scan"
    /\ replaced' = [n \in Names |-> FALSE]
    /\ mi' = 1
    /\ mpc' = "visit"
    /\ UNCHANGED <<threads, restart_counters, flagged, monStarts, afterFlag,
                   orphans, apc, aname, manual, abudget>>
    /\ SupFrame

\* monitor, one name: alive: next name; dead and at the ceiling: critical log,
\* continue; dead and under the ceiling: go on to the backoff
MonVisit ==
    /\ mpc = "visit"
    /\ mi <= NumThreads
    /\ IF threads[mi] /\ ~replaced[mi]
       THEN /\ mi' = mi + 1
            /\ UNCHANGED <<flagged, mpc>>
       ELSE IF AtCeiling(restart_counters[mi])
            THEN /\ flagged' = flagged \cup {mi}
                 /\ mi' = mi + 1
                 /\ UNCHANGED mpc
            ELSE /\ mpc' = "backoff"
                 /\ UNCHANGED <<flagged, mi>>
    /\ replaced' = [replaced EXCEPT ![mi] = FALSE]
    /\ UNCHANGED <<threads, restart_counters, monStarts, afterFlag,
                   orphans, apc, aname, manual, abudget>>
    /\ SupFrame

\* monitor: the for loop is over: time.sleep(3), next cycle
MonSleep ==
    /\ mpc = "visit"
    /\ mi > NumThreads
    /\ mpc' = "scan"
    /\ UNCHANGED <<threads, restart_counters, mi, replaced, flagged, monStarts,
                   afterFlag, orphans, apc, aname, manual, abudget>>
    /\ SupFrame

\* monitor: time.sleep(RESTART_BACKOFF); restart_counters[name] += 1;
\* start_thread up to its is_alive() test
MonBackoff ==
    /\ mpc = "backoff"
    /\ restart_counters' = [restart_counters EXCEPT ![mi] = @ + 1]
    /\ IF AlreadyRunning(threads[mi])
       THEN mi' = mi + 1 /\ mpc' = "visit"
       ELSE mpc' = "create" /\ UNCHANGED mi
    /\ UNCHANGED <<threads, replaced, flagged, monStarts, afterFlag, orphans,
                   apc, aname, manual, abudget>>
    /\ SupFrame

\* start_thread called by monitor: threads[name] = t; t.start()
MonCreate ==
    /\ mpc = "create"
    /\ orphans' = [orphans EXCEPT ![mi] = IF threads[mi] THEN @ + 1 ELSE @]
    /\ threads' = [threads EXCEPT ![mi] = TRUE]
    /\ monStarts' = [monStarts EXCEPT ![mi] = @ + 1]
    /\ afterFlag' = IF flagged \ {mi} # {} THEN afterFlag \cup {mi} ELSE afterFlag
    /\ mi' = mi + 1
    /\ mpc' = "visit"
    /\ UNCHANGED <<restart_counters, replaced, flagged, apc, aname, manual, abudget>>
    /\ SupFrame

\* manual_restart(name) is called
ManualBegin(n) ==
    /\ apc = "idle"
    /\ abudget > 0
    /\ abudget' = abudget - 1
    /\ aname' = n
    /\ manual' = [manual EXCEPT ![n] = TRUE]
    /\ apc' = "check"
    /\ UNCHANGED <<threads, restart_counters, mpc, mi, replaced, flagged,
                   monStarts, afterFlag, orphans>>
    /\ SupFrame

\* start_thread called by manual_restart, up to its is_alive() test
ManualCheck ==
    /\ apc = "check"
    /\ apc' = IF AlreadyRunning(threads[aname]) THEN "warned" ELSE "create"
    /\ UNCHANGED <<threads, restart_counters, mpc, mi, replaced, flagged,
                   monStarts, afterFlag, orphans, aname, manual, abudget>>
    /\ SupFrame

\* start_thread called by manual_restart: the warning "already running" is
\* logged and the call returns
ManualReturn ==
    /\ apc = "warned"
    /\ apc' = "idle"
    /\ UNCHANGED <<threads, restart_counters, mpc, mi, replaced, flagged,
                   monStarts, afterFlag, orphans, aname, manual, abudget>>
    /\ SupFrame

\* start_thread called by manual_restart: threads[name] = t; t.start()
ManualCreate ==
    /\ apc = "create"
    /\ orphans' = [orphans EXCEPT ![aname] = IF threads[aname] THEN @ + 1 ELSE @]
    /\ threads' = [threads EXCEPT ![aname] = TRUE]
    /\ replaced' = [replaced EXCEPT ![aname] = Pending(aname)]
    /\ apc' = "idle"
    /\ UNCHANGED <<restart_counters, mpc, mi, flagged, monStarts, afterFlag,
                   aname, manual, abudget>>
    /\ SupFrame

NextSup ==
    \/ \E n \in Names : ThreadExit(n)
    \/ MonScan \/ MonVisit \/ MonSleep \/ MonBackoff \/ MonCreate
    \/ \E n \in Names : ManualBegin(n)
    \/ ManualCheck \/ ManualReturn \/ ManualCreate

SpecSup == InitSup /\ [][NextSup]_vars

\* C10: monitor creates at most MAX_RESTART_ATTEMPTS threads for a name and
\* counts at most that many attempts; a name it has flagged has used them
\* all; and for a name manual_restart was never called with, every counted
\* attempt is a thread monitor created, and once flagged the name has been
\* restarted exactly MAX_RESTART_ATTEMPTS times and is dead.
C10_RestartCeiling ==
    \A n \in Names :
        /\ restart_counters[n] <= MAX_RESTART_ATTEMPTS
        /\ monStarts[n] <= MAX_RESTART_ATTEMPTS
        /\ n \in flagged => restart_counters[n] = MAX_RESTART_ATTEMPTS
        /\ ~manual[n] =>
             /\ restart_counters[n] =
                  monStarts[n] + (IF mpc = "create" /\ mi = n THEN 1 ELSE 0)
             /\ n \in flagged =>
                  /\ ~threads[n]
                  /\ monStarts[n] = MAX_RESTART_ATTEMPTS

C10_Witness ==
    \E n, m \in Names :
        /\ n # m
        /\ n \in flagged
        /\ ~manual[n]
        /\ monStarts[n] = MAX_RESTART_ATTEMPTS
        /\ ~threads[n]
        /\ m \in afterFlag

\* C20: a call of start_thread that finds the thread of its name alive goes
\* to its return: it creates no thread and leaves the table of threads and
\* the restart counter as they are. The counter monitor adds to before it
\* calls start_thread is left at that value.
C20_StartAliveIsNoOp ==
    [][/\ (apc = "check" /\ threads[aname] /\ apc' # "check") =>
            /\ apc' = "warned"
            /\ UNCHANGED <<threads, restart_counters, monStarts, orphans>>
       /\ (apc = "warned" /\ apc' # "warned") =>
            /\ apc' = "idle"
            /\ UNCHANGED <<threads, restart_counters, monStarts, orphans>>
       /\ (mpc = "backoff" /\ threads[mi] /\ mpc' # "backoff") =>
            /\ mpc' = "visit"
            /\ restart_counters' = [restart_counters EXCEPT ![mi] = @ + 1]
            /\ UNCHANGED <<threads, monStarts, orphans>>]_vars

C20_Witness ==
    /\ apc = "warned"
    /\ threads[aname]
    /\ restart_counters[aname] = 0 /\ monStarts[aname] = 0

\* ------------------------------------------------- SpecShut: shutdown()
HookNames == {StopHooks[i] : i \in 1..Len(StopHooks)}

\* how the call of a stop hook ends: it returns, or it raises an Exception
HookResults == {"ok", "raised"}

\* the position after the last hook: "Shutdown complete", sys.exit(0)
AfterHooks == "exit"

\* the position after hook number i
Following(i) == IF i < Len(StopHooks) THEN StopHooks[i + 1] ELSE AfterHooks

AfterHookAlt(i, r) == IF r = "raised" THEN AfterHooks ELSE Following(i)
\* shutdown: every hook is called in a try of its own whose except branch
\* logs a warning, so the next statement is the next hook however it ended
AfterHook(i, r) == Following(i)

\* MoviePlayer.stop: self.running = False; a live emitter is terminated
PlayerStop(p) == IF p = "alive" THEN "terminated" ELSE p

ShutFrame == UNCHANGED <<qvars, svars, lvars, cvars, threads, restart_counters, mpc,
                         mi, replaced, flagged, monStarts, afterFlag, orphans,
                         apc, aname, manual, abudget, epc, cur, updated,
                         retries, elapsed, nowPlaying, control, controlOK,
                         launches, ended, crashed, why>>

\* SIGINT or SIGTERM arrives: shutdown sets running = False
ShutdownBegin ==
    /\ spc = "armed"
    /\ main_running' = FALSE
    /\ spc' = StopHooks[1]
    /\ UNCHANGED <<hooks, running, process>>
    /\ ShutFrame

\* shutdown calls hook number i; the engine's hook, when it returns, has
\* stopped the Player thread's MoviePlayer
CallHook(i) ==
    /\ spc = StopHooks[i]
    /\ \E r \in HookResults :
         /\ hooks' = [hooks EXCEPT ![StopHooks[i]] = r]
         /\ spc' = AfterHook(i, r)
         /\ IF StopHooks[i] = "player" /\ r = "ok"
            THEN running' = FALSE /\ process' = PlayerStop(process)
            ELSE UNCHANGED <<running, process>>
    /\ UNCHANGED main_running
    /\ ShutFrame

\* sys.exit(0)
ShutdownExit ==
    /\ spc = AfterHooks
    /\ spc' = "done"
    /\ UNCHANGED <<main_running, hooks, running, process>>
    /\ ShutFrame

Shutdown == ShutdownBegin \/ (\E i \in 1..Len(StopHooks) : CallHook(i)) \/ ShutdownExit

\* the Player thread and the emitter run on the files the last run left;
\* the signal may arrive at any time
InitShut ==
    /\ CallersOff
    /\ MonitorOff
    /\ ControllerOff
    /\ store0 \in CtlStores
    /\ playlist = store0
    /\ playlistOK = TRUE
    /\ epc = "loop"
    /\ running = TRUE
    /\ cur = NoEntry
    /\ updated = <<>>
    /\ retries = 0
    /\ elapsed = 0
    /\ process = "none"
    /\ nowPlaying = NothingPlaying
    /\ \/ control = NoCommands /\ issued = <<>>
       \/ /\ control = [NoCommands EXCEPT ![LeftOver.kind] = LeftOver.id]
          /\ issued = <<LeftOver>>
    /\ controlOK = TRUE
    /\ launches = [i \in EntryIds |-> 0]
    /\ ended = [i \in EntryIds |-> "no"]
    /\ crashed = FALSE
    /\ why = "none"
    /\ spc = "armed"
    /\ main_running = TRUE
    /\ hooks = [h \in HookNames |-> "no"]

NextShut == Engine \/ EmitterExit \/ Shutdown

SpecShut == InitShut /\ [][NextShut]_vars

MaxEntries == 3        \* keys in the control.json the control loop finds

\* control.json as any writer may have left it: keys that are commands or
\* not, payloads with a request id or without
CheckDocs == {d \in [DocKinds -> {0, NoId, 1}] : Size(d) <= MaxEntries}

InitCheck ==
    /\ QueueOff
    /\ ControllerOn(0, {})
    /\ store0 \in CtlStores
    /\ playlist = store0
    /\ playlistOK = TRUE
    /\ epc = "off"
    /\ running = FALSE
    /\ cur = NoEntry
    /\ updated = <<>>
    /\ retries = 0
    /\ elapsed = 0
    /\ process \in {"none", "alive"}
    /\ nowPlaying = NothingPlaying
    /\ control \in CheckDocs
    /\ controlOK = TRUE
    /\ launches = [i \in EntryIds |-> 0]
    /\ ended = [i \in EntryIds |-> "no"]
    /\ crashed = FALSE
    /\ why = "none"

SpecCheck == InitCheck /\ [][Controller]_vars

\* C23: the command a handler is applied for is in VALID_COMMANDS and has a
\* request id in the document read; and the turn of the for loop that meets
\* a key outside VALID_COMMANDS or a payload without id goes on to the next
\* key with paused, the emitter, last_request_ids, the store and
\* now_playing.txt as they were.
C23_RejectedNotApplied ==
    /\ [](cpc = "apply" => (ccmd \in VALID_COMMANDS /\ command_data[ccmd] > 0))
    /\ [][\A k \in todo :
            (todo' = todo \ {k} /\ (k \notin VALID_COMMANDS \/ command_data[k] = NoId))
            => /\ cpc' = "iter"
               /\ UNCHANGED <<paused, process, last_request_ids, applied,
                              playlist, nowPlaying, launches>>]_vars

\* the for loop has met a pause without id and the key that is no command,
\* and is through: nothing was applied
C23_Witness ==
    /\ control["pause"] = NoId
    /\ control["volume"] # 0
    /\ Size(control) = 2
    /\ cpc = "iter" /\ todo = {} /\ command_data = control
    /\ process = "alive"
    /\ ~paused
    /\ last_request_ids = NoCommands

\* control.json holds one command, a skip with a request id
OnlySkip == Size(control) = 1 /\ control["skip"] = 1

\* the for loop of _check_for_new_command is through the document
Through == cpc = "iter" /\ todo = {} /\ command_data = control

\* C28: _handle_skip leaves its first two statements with paused cleared and
\* no emitter alive, whether paused was set or not; and when the control loop
\* is through a document with one skip, the front entry of a non-empty store
\* has been taken out of playlist.json and its emitter launched, while with
\* an empty store nothing was launched and nothing written.
C28_SkipPopsAndBegins ==
    /\ [](cpc = "skip_next" => (~paused /\ process # "alive"))
    /\ []((OnlySkip /\ Through) =>
            /\ ~paused
            /\ applied[<<"skip", 1>>] = 1
            /\ IF store0 # <<>>
               THEN /\ playlist = Tail(store0)
                    /\ launches = [i \in EntryIds |-> IF i = store0[1].id THEN 1 ELSE 0]
                    /\ process = "alive"
                    /\ nowPlaying = [shape |-> "json", id |-> store0[1].id]
               ELSE /\ playlist = <<>>
                    /\ launches = [i \in EntryIds |-> 0]
                    /\ process # "alive"
                    /\ nowPlaying = NothingPlaying)

\* a skip was applied to a store of two entries: the first entry is out of
\* the store and begun
C28_Witness ==
    /\ OnlySkip /\ Through
    /\ Len(store0) = 2
    /\ playlist = Tail(store0)
    /\ launches[1] = 1
    /\ process = "alive"

\* --------------- SpecPanel: the control loop and the Discord control panel
MaxPanelCmds == 2      \* buttons pressed in a run of SpecPanel

InitPanel ==
    /\ QueueOff
    /\ ControllerOn(MaxPanelCmds, {"discord"})
    /\ store0 \in CtlStores
    /\ playlist = store0
    /\ playlistOK = TRUE
    /\ epc = "off"
    /\ running = FALSE
    /\ cur = NoEntry
    /\ updated = <<>>
    /\ retries = 0
    /\ elapsed = 0
    /\ process \in {"none", "alive"}
    /\ nowPlaying = NothingPlaying
    /\ control = NoCommands
    /\ controlOK = TRUE
    /\ launches = [i \in EntryIds |-> 0]
    /\ ended = [i \in EntryIds |-> "no"]
    /\ crashed = FALSE
    /\ why = "none"

SpecPanel == InitPanel /\ [][NextCtl]_vars

\* C29: _handle_pause with paused set and _handle_resume with paused clear
\* return with paused and the emitter as they were and start nothing;
\* _handle_pause with paused clear sets it and leaves no emitter alive;
\* _handle_resume with paused set clears it and goes on to run_once, which
\* launches an emitter when the store has an entry.
C29_PauseResume ==
    [][/\ (cpc = "apply" /\ ccmd = "pause" /\ cpc' # cpc) =>
            IF paused
            THEN cpc' = "iter" /\ UNCHANGED <<paused, process, launches, playlist>>
            ELSE cpc' = "iter" /\ paused' /\ process' # "alive"
                 /\ UNCHANGED <<launches, playlist>>
       /\ (cpc = "apply" /\ ccmd = "resume" /\ cpc' # cpc) =>
            IF ~paused
            THEN cpc' = "iter" /\ UNCHANGED <<paused, process, launches, playlist>>
            ELSE cpc' = "run_once" /\ ~paused'
       /\ (cpc = "run_once" /\ cpc' # cpc /\ playlistOK /\ playlist # <<>>) =>
            /\ process' = "alive"
            /\ launches' = [launches EXCEPT ![Head(playlist).id] = @ + 1]]_vars

\* a second pause was applied while paused, next to an emitter that the
\* first pause had stopped
C29_Witness ==
    /\ applied[<<"pause", 1>>] = 1
    /\ applied[<<"pause", 2>>] = 1
    /\ cpc = "iter"
    /\ paused
    /\ process = "terminated"

\* ------------------------------------------------- SpecIdle: an idle engine
\* The Player thread finds playlist.json empty and sleeps; callers of
\* add_to_queue and get_queue arrive meanwhile
IdleOps == {"append", "list"}

InitIdle ==
    /\ store0 = <<>>
    /\ playlist = store0
    /\ playlistOK = TRUE
    /\ lockHolder = NoOne
    /\ docLocks = NoLocks
    /\ nextId = 1
    /\ op \in [Workers -> IdleOps]
    /\ pc = [w \in Workers |-> "rd_wait"]
    /\ arg = [w \in Workers |-> 0]
    /\ queue = [w \in Workers |-> <<>>]
    /\ tries = [w \in Workers |-> 0]
    /\ result = [w \in Workers |-> 0]
    /\ stale = [w \in Workers |-> FALSE]
    /\ sawTorn = [w \in Workers |-> FALSE]
    /\ timedOut = [w \in Workers |-> "no"]
    /\ appended = <<>> /\ popped = <<>> /\ reordered = FALSE
    /\ ControllerOff
    /\ issued = <<>>
    /\ SupervisorOff
    /\ epc = "idle_sleep"
    /\ running = TRUE
    /\ cur = NoEntry
    /\ updated = <<>>
    /\ retries = 0
    /\ elapsed = 0
    /\ process = "none"
    /\ nowPlaying = NothingPlaying
    /\ control = NoCommands
    /\ controlOK = TRUE
    /\ launches = [i \in EntryIds |-> 0]
    /\ ended = [i \in EntryIds |-> "no"]
    /\ crashed = FALSE
    /\ why = "none"

\* the steps of the Player thread on entries add_to_queue wrote
IdleEngine == GetNext \/ IdleWake \/ PlayVideoBegin

SpecIdle == InitIdle /\ [][NextStore]_vars

\* the Player thread and every caller are threads of their own; the engine's
\* sleep ends and the callers' flock never blocks
SpecIdleFair ==
    /\ SpecIdle
    /\ WF_vars(IdleEngine)
    /\ \A w \in Workers : WF_vars(Caller(w))

\* C31: the engine on an empty queue stays in its loop, and an entry that
\* add_to_queue has written to playlist.json while the engine is Idle is
\* later the entry the engine streams: it is popped and its emitter is
\* launched.
C31_AppendedIsBegun ==
    /\ [](epc \in Idle => running)
    /\ \A i \in EntryIds :
         (playlistOK /\ i \in Ids(playlist) /\ epc \in Idle)
            ~> (cur.id = i /\ launches[i] > 0)

\* ------------------------------------- SpecHold: the scopes of the locks
\* The Player thread and the Controller thread with every "with FileLock"
\* and read_locked_json in three steps: the lock is taken, the document is
\* read or written and the lock released, the thread goes on. The positions
\* of the other steps are those of Engine and Controller.
PlayerThread == NumWorkers + 1
ControllerThread == NumWorkers + 2

\* the owner of the lock that guards a document
Owner(d) == IF d = "playlist" THEN lockHolder ELSE docLocks[d]

\* the documents a thread owns the lock of
Held(t) == {d \in LockedDocs \cup {"playlist"} : Owner(d) = t}

FileLockExitAlt(holder) == holder
\* the end of a "with FileLock(path)" block: the lock on the path is free
FileLockExit(holder) == NoOne

\* what is left alone by a step of PlayerThread or ControllerThread that
\* takes or releases a lock
wrest == <<nextId, pc, op, arg, queue, tries, result, stale, sawTorn, timedOut,
           store0>>

\* the lock of document d goes to owner h
SetOwner(d, h) ==
    /\ lockHolder' = IF d = "playlist" THEN h ELSE lockHolder
    /\ docLocks' = IF d \in LockedDocs THEN [docLocks EXCEPT ![d] = h] ELSE docLocks

PlayerScopesAlt == [loop |-> [doc |-> "playlist", to |-> "idle_sleep"]]
\* play_loop / play_video: the position whose next statement is a
\* "with FileLock", the document it locks, and the position inside the block
PlayerScopes ==
    [loop      |-> [doc |-> "playlist", to |-> "loop_locked"],
     play      |-> [doc |-> IF cur.file_path # "ok" THEN "playlist" ELSE "now_playing",
                    to |-> "play_locked"],
     skipchk   |-> [doc |-> "control", to |-> "skipchk_locked"],
     reset     |-> [doc |-> "control", to |-> "reset_locked"],
     clear     |-> [doc |-> "now_playing", to |-> "clear_locked"],
     writeback |-> [doc |-> "playlist", to |-> "writeback_locked"],
     giveup    |-> [doc |-> "now_playing", to |-> "giveup_locked"],
     giveup_write |-> [doc |-> "playlist", to |-> "giveup_write_locked"]]

\* "with FileLock(str(path))": the Player thread enters the block
PlayerLock(pos) ==
    /\ epc = pos
    /\ pos = "loop" => running
    /\ FileLock(Owner(PlayerScopes[pos].doc))
    /\ SetOwner(PlayerScopes[pos].doc, PlayerThread)
    /\ epc' = PlayerScopes[pos].to
    /\ UNCHANGED <<playlist, playlistOK, running, cur, updated, retries, elapsed,
                   process, nowPlaying, control, controlOK, launches, ended,
                   crashed, why, wrest, svars, cvars, uvars>>

\* get_next_video inside its block, and the return out of it
HeldGetNext ==
    /\ epc = "loop_locked"
    /\ retries' = 0
    /\ IF playlistOK /\ playlist # <<>>
       THEN /\ cur' = Head(playlist)
            /\ updated' = GetNextVideo(playlist).rest
            /\ epc' = "play"
       ELSE /\ cur' = NoEntry
            /\ updated' = <<>>
            /\ epc' = "idle_sleep"
    /\ SetOwner("playlist", FileLockExit(lockHolder))
    /\ UNCHANGED <<playlist, playlistOK, running, elapsed, process, nowPlaying,
                   control, controlOK, launches, ended, crashed, why,
                   wrest, svars, cvars, uvars>>

\* play_video: write_updated_playlist for a missing file, update_now_playing
\* otherwise
HeldPlayVideoBegin ==
    /\ epc = "play_locked"
    /\ IF cur.file_path # "ok"
       THEN /\ playlist' = updated
            /\ playlistOK' = TRUE
            /\ ended' = [ended EXCEPT ![cur.id] = "nofile"]
            /\ epc' = "loop"
            /\ SetOwner("playlist", FileLockExit(lockHolder))
            /\ UNCHANGED nowPlaying
       ELSE /\ nowPlaying' = [shape |-> "legacy", id |-> cur.id]
            /\ epc' = "launch"
            /\ SetOwner("now_playing", FileLockExit(docLocks["now_playing"]))
            /\ UNCHANGED <<playlist, playlistOK, ended>>
    /\ UNCHANGED <<running, cur, updated, retries, elapsed, process, control,
                   controlOK, launches, crashed, why, wrest, svars, cvars, uvars>>

\* should_skip inside its block
HeldShouldSkip ==
    /\ epc = "skipchk_locked"
    /\ epc' = IF controlOK /\ control["skip"] # 0 THEN "reset" ELSE "pollproc"
    /\ SetOwner("control", FileLockExit(docLocks["control"]))
    /\ UNCHANGED <<playlist, playlistOK, running, cur, updated, retries, elapsed,
                   process, nowPlaying, control, controlOK, launches, ended,
                   crashed, why, wrest, svars, cvars, uvars>>

\* reset_controls inside its block; the streaming loop breaks
HeldResetControls ==
    /\ epc = "reset_locked"
    /\ control' = NoCommands
    /\ controlOK' = TRUE
    /\ why' = "skip"
    /\ epc' = "terminate"
    /\ SetOwner("control", FileLockExit(docLocks["control"]))
    /\ UNCHANGED <<playlist, playlistOK, running, cur, updated, retries, elapsed,
                   process, nowPlaying, launches, ended, crashed,
                   wrest, svars, cvars, uvars>>

\* clear_now_playing inside its block, after the streaming loop or in the
\* give-up branch of play_loop
HeldClearNowPlaying ==
    /\ epc \in {"clear_locked", "giveup_locked"}
    /\ nowPlaying' = NothingPlaying
    /\ epc' = IF epc = "clear_locked" THEN "writeback" ELSE "giveup_write"
    /\ SetOwner("now_playing", FileLockExit(docLocks["now_playing"]))
    /\ UNCHANGED <<playlist, playlistOK, running, cur, updated, retries, elapsed,
                   process, control, controlOK, launches, ended, crashed, why,
                   wrest, svars, cvars, uvars>>

\* write_updated_playlist inside its block; play_video goes on to
\* time.sleep(1), the give-up branch to the top of play_loop
HeldWriteUpdatedPlaylist ==
    /\ epc \in {"writeback_locked", "giveup_write_locked"}
    /\ playlist' = updated
    /\ playlistOK' = TRUE
    /\ ended' = [ended EXCEPT ![cur.id] = IF epc = "writeback_locked" THEN why ELSE "giveup"]
    /\ epc' = IF epc = "writeback_locked" THEN "end_sleep" ELSE "loop"
    /\ SetOwner("playlist", FileLockExit(lockHolder))
    /\ UNCHANGED <<running, cur, updated, retries, elapsed, process, nowPlaying,
                   control, controlOK, launches, crashed, why,
                   wrest, svars, cvars, uvars>>

\* time.sleep(1) at the end of play_video
EndSleep ==
    /\ epc = "end_sleep"
    /\ epc' = "loop"
    /\ UNCHANGED <<playlist, playlistOK, running, cur, updated, retries, elapsed,
                   process, nowPlaying, control, controlOK, launches, ended,
                   crashed, why, notPlayer>>

\* _check_for_new_command and _handle_skip: the position whose next
\* statement is read_locked_json or load_playlist, and the document
ControllerScopes ==
    [poll      |-> [doc |-> "control", to |-> "poll_locked"],
     skip_next |-> [doc |-> "playlist", to |-> "skip_next_locked"]]

\* locked_file inside read_locked_json: flock succeeds
ControllerLock(pos) ==
    /\ cpc = pos
    /\ Flock(Owner(ControllerScopes[pos].doc))
    /\ SetOwner(ControllerScopes[pos].doc, ControllerThread)
    /\ cpc' = ControllerScopes[pos].to
    /\ UNCHANGED <<last_request_ids, paused, command_data, todo, applied, ccmd,
                   fvars, docvars, wrest, svars, uvars, pvars>>

\* read_locked_json(CONTROL_FILE): json.load under the lock, release
HeldCtlPoll ==
    /\ cpc = "poll_locked"
    /\ IF controlOK
       THEN /\ command_data' = control
            /\ todo' = {k \in DocKinds : control[k] # 0}
            /\ cpc' = "iter"
       ELSE /\ cpc' = "poll"
            /\ UNCHANGED <<command_data, todo>>
    /\ SetOwner("control", Unlock(docLocks["control"]))
    /\ UNCHANGED <<last_request_ids, paused, applied, ccmd, fvars, docvars,
                   wrest, svars, uvars, pvars>>

\* get_next_item: load_playlist under the lock, release; then
\* set_now_playing, which opens now_playing.txt without a lock
HeldSkipNext ==
    /\ cpc = "skip_next_locked"
    /\ IF GetNextItem(playlistOK, playlist).id # 0
       THEN /\ nowPlaying' = [shape |-> "json", id |-> GetNextItem(playlistOK, playlist).id]
            /\ cpc' = "run_once"
       ELSE /\ cpc' = "iter"
            /\ UNCHANGED nowPlaying
    /\ SetOwner("playlist", Unlock(lockHolder))
    /\ UNCHANGED <<last_request_ids, paused, command_data, todo, applied, ccmd,
                   fvars, docvars, wrest, svars, uvars, eprivate, process, control,
                   controlOK, launches>>

\* the store the threads start on: entries with or without their media file
HoldStores == {q \in PlayStores : \A i \in 1..Len(q) : q[i].duration = 2}

\* control.json as the last run left it: empty, or holding a skip
InitHold ==
    /\ QueueOff
    /\ ControllerOn(0, {})
    /\ store0 \in HoldStores
    /\ playlist = store0
    /\ playlistOK = TRUE
    /\ epc = "loop"
    /\ running = TRUE
    /\ cur = NoEntry
    /\ updated = <<>>
    /\ retries = 0
    /\ elapsed = 0
    /\ process = "none"
    /\ nowPlaying = NothingPlaying
    /\ control \in {NoCommands, [NoCommands EXCEPT ![LeftOver.kind] = LeftOver.id]}
    /\ controlOK = TRUE
    /\ launches = [i \in EntryIds |-> 0]
    /\ ended = [i \in EntryIds |-> "no"]
    /\ crashed = FALSE
    /\ why = "none"

NextHold ==
    \/ \E pos \in DOMAIN PlayerScopes : PlayerLock(pos)
    \/ HeldGetNext \/ IdleWake \/ HeldPlayVideoBegin \/ Launch \/ LaunchFail
    \/ RetrySleep \/ HeldShouldSkip \/ HeldResetControls \/ PollProcess
    \/ Terminate \/ HeldClearNowPlaying \/ HeldWriteUpdatedPlaylist \/ EndSleep
    \/ EmitterExit
    \/ \E pos \in DOMAIN ControllerScopes : ControllerLock(pos)
    \/ HeldCtlPoll \/ CtlVisit \/ CtlSleep \/ HandleSkip \/ HeldSkipNext \/ RunOnce

SpecHold == InitHold /\ [][NextHold]_vars

\* the positions at which a thread sleeps or looks at the emitter: the
\* idle sleep, the retry delay, process.poll() with time.sleep(1), the
\* sleep that ends play_video; the end of the for loop, where _watch_loop
\* sleeps, stop_stream and run_once
PlayerSleeps == {"idle_sleep", "retry_sleep", "pollproc", "end_sleep", "launch", "terminate"}
ControllerSleeps == {"iter", "apply", "run_once"}

\* C32: a thread that sleeps or waits on the emitter owns no lock; a thread
\* owns at most one lock, and the step it takes with the lock is the read or
\* the write of that document, after which the lock is free.
C32_NoLockAcrossSleep ==
    /\ [](epc \in PlayerSleeps => Held(PlayerThread) = {})
    /\ [](cpc \in ControllerSleeps => Held(ControllerThread) = {})
    /\ [](Cardinality(Held(PlayerThread)) <= 1 /\ Cardinality(Held(ControllerThread)) <= 1)
    /\ [][/\ (Held(PlayerThread) # {} /\ epc' # epc) => Held(PlayerThread)' = {}
          /\ (Held(ControllerThread) # {} /\ cpc' # cpc) => Held(ControllerThread)' = {}]_vars

\* the Player thread sleeps after it has read the skip under the lock of
\* control.json, while the Controller thread owns the lock of playlist.json
C32_Witness ==
    /\ epc = "pollproc"
    /\ process = "alive"
    /\ why = "none"
    /\ Held(PlayerThread) = {}
    /\ Held(ControllerThread) = {"playlist"}

\* ------------------------- SpecFeed: front-ends feed the store of a running engine
\* Callers of add_to_queue, pin_next, remove_by_id and get_queue next to the
\* Player thread, on a store whose entries have their media file
FeedOps == {"append", "pin", "remove", "list"}

InitFeed ==
    /\ store0 \in CtlStores
    /\ playlist = store0
    /\ playlistOK = TRUE
    /\ lockHolder = NoOne
    /\ docLocks = NoLocks
    /\ nextId = Len(store0) + 1
    /\ op \in [Workers -> FeedOps]
    /\ Len(store0) + Cardinality({w \in Workers : op[w] = "append"}) <= MaxInit
    /\ pc = [w \in Workers |-> "rd_wait"]
    /\ arg = [w \in Workers |-> 0]
    /\ queue = [w \in Workers |-> <<>>]
    /\ tries = [w \in Workers |-> 0]
    /\ result = [w \in Workers |-> 0]
    /\ stale = [w \in Workers |-> FALSE]
    /\ sawTorn = [w \in Workers |-> FALSE]
    /\ timedOut = [w \in Workers |-> "no"]
    /\ appended = <<>> /\ popped = <<>> /\ reordered = FALSE
    /\ ControllerOff
    /\ issued = <<>>
    /\ SupervisorOff
    /\ epc = "loop"
    /\ running = TRUE
    /\ cur = NoEntry
    /\ updated = <<>>
    /\ retries = 0
    /\ elapsed = 0
    /\ process = "none"
    /\ nowPlaying = NothingPlaying
    /\ control = NoCommands
    /\ controlOK = TRUE
    /\ launches = [i \in EntryIds |-> 0]
    /\ ended = [i \in EntryIds |-> "no"]
    /\ crashed = FALSE
    /\ why = "none"

NextFeed ==
    \/ NextQueue
    \/ GetNext \/ IdleWake \/ PlayVideoBegin \/ Launch \/ ShouldSkip
    \/ PollProcess \/ Terminate \/ ClearNowPlaying \/ WriteUpdatedPlaylist

SpecFeed == InitFeed /\ [][NextFeed]_vars

\* C33: the write of the playlist that ends the playback of an entry takes
\* that entry out of playlist.json and leaves the rest of the document as
\* the callers have made it: what was appended is there, what was removed
\* is not, and the order is the one the last pin left.
C33_WriteBackKeepsChanges ==
    [][(epc = "writeback" /\ epc' = "loop" /\ playlistOK)
        => playlist' = FilterOut(playlist, cur.id)]_vars

\* C34: when the emitter never exits by itself and the one command issued is
\* a skip, at most one entry is left before its time is up, whether its
\* emitter was ended by the engine's own should_skip or by the skip handler
\* of the control loop.
C34_OneSkipOneEntry ==
    (~crashed /\ Len(issued) = 1 /\ issued[1].kind = "skip")
        => Cardinality({i \in EntryIds : ended[i] \in {"skip", "exit"}}) <= 1

\* C35: when the one command issued is a skip written while no entry was
\* streaming, no entry is left because of a skip: the entries the engine
\* begins afterwards are not terminated by it.
C35_IdleSkipEndsNothing ==
    (Len(issued) = 1 /\ issued[1].kind = "skip" /\ issued[1].during = 0)
        => \A i \in EntryIds : ended[i] # "skip"

\* C36: no thread that is alive has been dropped from the table for a new
\* thread of its name: of every name at most one thread is alive.
C36_OneLivePerName ==
    \A n \in Names : orphans[n] = 0

\* C37: from the return of MoviePlayer.stop on, no step launches an emitter
\* and no emitter is alive.
C37_StopIsFinal ==
    /\ [][hooks["player"] = "ok" => launches' = launches]_vars
    /\ [](hooks["player"] = "ok" => process # "alive")

\* -------------------------- SpecRaise: the control loop with failing handlers
\* stop_stream or run_once raises: the exception leaves the handler,
\* _apply_command and the for loop of _check_for_new_command, and is logged
\* by _watch_loop, which sleeps and polls again. What the handler did before
\* the call stays done; the emitter may or may not have been stopped
HandlerRaises ==
    /\ \/ cpc = "apply" /\ ccmd \in {"skip", "stop"}
       \/ cpc = "apply" /\ ccmd = "pause" /\ ~paused
       \/ cpc = "run_once"
    /\ paused' = IF cpc = "run_once" THEN paused ELSE (ccmd = "pause")
    /\ process' \in {process, StopStream(process)}
    /\ cpc' = "poll"
    /\ ccmd' = "none"
    /\ todo' = {}
    /\ command_data' = NoCommands
    /\ UNCHANGED <<last_request_ids, applied, fvars, docvars, wvars, svars, lvars,
                   uvars, eprivate, nowPlaying, control, controlOK, launches>>

NextRaise == Controller \/ HandlerRaises

SpecRaise == InitCheck /\ [][NextRaise]_vars

\* C38: when a handler is about to be called the request id of its command
\* is already in last_request_ids; and with control.json left as it is, no
\* command is handed to a handler twice, whether the handler returned or
\* raised.
C38_RaisedNotReapplied ==
    /\ cpc = "apply" => last_request_ids[ccmd] = command_data[ccmd]
    /\ \A c \in Kinds \X ReqIds : applied[c] <= 1

\* the pause handler raised in stop_stream (paused is set, the emitter is
\* alive); a later poll has read the same pause and gone through the
\* document without applying it
C38_Witness ==
    /\ control = [NoCommands EXCEPT !["pause"] = 1]
    /\ paused /\ process = "alive"
    /\ cpc = "iter" /\ todo = {} /\ command_data = control
    /\ applied[<<"pause", 1>>] = 1

====
